---------------------------- MODULE Spec2Model ----------------------------
(***************************************************************************)
(* Model of the fixed block allocator of the StateMachine repository: the  *)
(* Allocator class (one free list of equally sized blocks, three block     *)
(* sourcing modes) and the xallocator module layered on it (xmalloc,       *)
(* xfree, xrealloc, xalloc_init, xalloc_destroy), as documented in         *)
(* doc/xallocator.md.                                                      *)
(*                                                                         *)
(* Memory is a map from addresses to words.  The first word of a block     *)
(* holds the free-list link while the block is free and the hidden         *)
(* Allocator* while it is handed out by xmalloc; the client region starts  *)
(* HeaderSize bytes later and is modelled by one word (the byte pattern    *)
(* the client last wrote there).                                           *)
(*                                                                         *)
(* Spec has one client calling the API, SpecPool a lone Allocator,         *)
(* SpecPure the size rounding and the header functions, SpecThreads        *)
(* threads inside xmalloc / xfree / xrealloc / xalloc_destroy with the     *)
(* lock (SpecFair: the same threads, scheduled fairly),                    *)
(* SpecBoot the static objects (XallocInitDestroy, MyClassStatic)          *)
(* of the translation units, and SpecScenario a client asking 10, 12 and   *)
(* 40 bytes of the heap blocks build.                                      *)
(*                                                                         *)
(* SpecEngine is the state machine of the examples: a class derived from   *)
(* StateMachine with MotorNew's states and transition maps, sent the       *)
(* external events SetSpeed and Halt.  SpecMotor is MotorNew itself, also  *)
(* asked whether SetSpeed and Halt are allowed.                            *)
(***************************************************************************)
EXTENDS Integers, Sequences, FiniteSets, TLC

\* ------------------------------------------------------ configuration --
\* #define MAX_ALLOCATORS: the slots of _allocators[].  The document sets 15
\* (heap blocks) and 12 (static pools) and asks to "increase or decrease this
\* number as necessary"; the model is configured with a small registry.
MAX_ALLOCATORS == 2
\* #define MAX_BLOCKS: blocks per static pool (32 in the document), likewise
\* configured small.
MAX_BLOCKS == 2

\* ------------------------------------------------------------- bounds --
\* The largest number of blocks the modelled system heap hands out.
MaxHeapBlocks == 2
\* Largest request size given to xmalloc / xrealloc.
MaxRequest == 5
\* Byte patterns a client writes are 1..MaxData.
MaxData == 1
\* The rounding is computed on its own for the request sizes 0..MaxClassify
\* and for the TopSizes largest values of size_t.
MaxClassify == 800
TopSizes == 2
\* Threads calling the xallocator at the same time.
NThreads == 2
\* Translation units with static objects.
NUnits == 2
\* The external events sent to a state machine (main() sends four).
MaxEvents == 4

\* ---------------------------------------------------------- constants --
\* sizeof(Allocator*): "an additional 4-bytes (typical sizeof(Allocator*))".
HeaderSize == 4
\* sizeof of the free-list link: "the minimum block size is only 4-bytes".
LinkSize == 4

NULL == 0
\* The width of size_t in bits.  size_t arithmetic wraps in the same way at
\* every width; 16 bits keep the values small.
SIZE_BITS == 16

\* A memory word: its bits v, and what they were written as (k).
Word(k, v) == [k |-> k, v |-> v]
Uninit == Word("uninit", 0)

\* The block sizes of the static pools, in the order xalloc_init fills
\* _allocators[] with them.
StaticSizes == <<8, 16, 32, 64, 128, 256, 396, 512, 768, 1024, 2048, 4096>>

VARIABLES
    staticPools,        \* TRUE iff built with #define STATIC_POOLS
    xallocInitialized,  \* _xallocInitialized: lock_init() has run
    destroyed,          \* xalloc_destroy() has run
    allocators,         \* _allocators[]: slot -> Allocator object or NULL
    mem,                \* memory: address -> word
    heapCalls,          \* calls of operator new (blocks, pools, Allocator objects)
    heapReleases,       \* calls of operator delete
    fatal,              \* the new-handler was called (it does not return)
    live,               \* pointer a client holds -> its Allocator, whether bytes were asked, the pattern written
    aliased,            \* xmalloc returned a pointer that a client was still holding
    origin,             \* block address -> slot of the Allocator that created it
    hiWater,            \* slot -> most blocks that were in use at the same time
    last,               \* the last allocate / deallocate call and its result
    net,                \* per registry slot: allocations issued minus deallocations accepted
    q,                  \* inputs and results of the size rounding and of the header codec
    criticalSection,    \* _criticalSection: initialised or not, the thread inside, whether it was used uninitialised
    calls,              \* how often xalloc_init and xalloc_destroy have run
    refCount,           \* XallocInitDestroy::refCount
    units,              \* translation unit -> how far its static objects are constructed / destroyed
    threads,            \* thread -> the xallocator call it is in, its position and its locals
    lone,               \* a lone Allocator: its constructor's arguments, the bytes it asked of operator new and the address it got, what its destructor deleted
    script,             \* the scripted client: pointer it holds -> the size it asked for, and the pointer it freed last
    motor               \* the MotorNew object and what its last external event did

vars == <<staticPools, xallocInitialized, destroyed, allocators, mem, heapCalls,
          heapReleases, fatal, live, aliased, origin, hiWater, last, net, q,
          criticalSection, calls, refCount, units, threads, lone, script, motor>>

\* The state of the code that calls the xallocator.
users == <<refCount, units, threads, script, motor>>

Slots == 1..MAX_ALLOCATORS

Range(seq) == {seq[k] : k \in 1..Len(seq)}

\* ------------------------------------------------------------- memory --
Read(m, a) == IF a \in DOMAIN m THEN m[a] ELSE Uninit

Store(m, a, w) == [x \in (DOMAIN m) \cup {a} |-> IF x = a THEN w ELSE m[x]]

\* Static storage reserved for the pool of slot i (disjoint regions).
PoolBase(i) == i * 4096 * MAX_BLOCKS

\* The system heap lies above all static storage.  operator new returns a
\* fresh address: the n-th block the Allocator of slot i asks for gets this one.
HeapBase == (MAX_ALLOCATORS + 1) * 4096 * MAX_BLOCKS

HeapAddr(i, n, size) == HeapBase + i * 4096 * (MaxHeapBlocks + 1) + n * size


\* ------------------------------------------------------ class Allocator --
\* Allocator(size, objects, memory): objects = 0 is heap blocks mode, objects > 0
\* with memory is static pool mode, objects > 0 without is heap pool mode (the
\* pool of size * objects bytes comes from operator new, here at address top).
\* The block size is never below the size of a pointer.
HEAP_BLOCKS == "HEAP_BLOCKS"
HEAP_POOL == "HEAP_POOL"
STATIC_POOL == "STATIC_POOL"

\* A constructor that takes every pool from the heap, supplied memory or not.
AllocatorMode_nostatic(objects, memory) ==
    IF objects = 0 THEN HEAP_BLOCKS ELSE HEAP_POOL

AllocatorMode(objects, memory) ==
    IF objects = 0 THEN HEAP_BLOCKS
    ELSE IF memory # NULL THEN STATIC_POOL ELSE HEAP_POOL

\* An empty slot of _allocators[] (a null Allocator*).
NoAllocator ==
    [size |-> 0, objects |-> 0, mode |-> "NULL", memory |-> NULL, head |-> NULL,
     poolIndex |-> 0, blockCount |-> 0, blocksInUse |-> 0]

\* The bytes of a pool of objects blocks.
PoolBytes(size, objects) == size * objects

\* A constructor that takes the size as it is given.
MinBlockSize_asGiven(size) == size

\* The constructor's initializer list: the block size is never below the size
\* of a pointer.
MinBlockSize(size) == IF size < LinkSize THEN LinkSize ELSE size

\* calls and bytes: how often the constructor calls operator new and for how
\* many bytes.
AllocatorNew(size, objects, memory, top) ==
    LET bs == MinBlockSize(size)
        mode == AllocatorMode(objects, memory)
    IN  [al |-> [size |-> bs, objects |-> objects, mode |-> mode,
                 memory |-> IF mode = HEAP_POOL THEN top ELSE memory,
                 head |-> NULL, poolIndex |-> 0, blockCount |-> 0,
                 blocksInUse |-> 0],
         calls |-> IF mode = HEAP_POOL THEN 1 ELSE 0,
         bytes |-> IF mode = HEAP_POOL THEN PoolBytes(bs, objects) ELSE 0]

\* A Push that makes the freed block the whole free-list.
Push_lose(al, m, pBlock) ==
    [al |-> [al EXCEPT !.head = pBlock], mem |-> Store(m, pBlock, Word("link", NULL))]

\* Push: the freed block's own first word becomes the link to the old head.
Push(al, m, pBlock) ==
    [al |-> [al EXCEPT !.head = pBlock],
     mem |-> Store(m, pBlock, Word("link", al.head))]

\* A Pop that hands out the head without unlinking it.
Pop_keep(al, m) ==
    IF al.head = NULL THEN [al |-> al, blk |-> NULL] ELSE [al |-> al, blk |-> al.head]

\* Pop: unlink the head block, NULL when the free list is empty.
Pop(al, m) ==
    IF al.head = NULL
    THEN [al |-> al, blk |-> NULL]
    ELSE [al |-> [al EXCEPT !.head = Read(m, al.head).v], blk |-> al.head]

\* An Allocate that takes a never-issued pool slot, or a new heap block, while
\* there is one and looks at the free-list only otherwise.
Allocate_newFirst(al, m, top) ==
    LET used(a) == [a EXCEPT !.blocksInUse = @ + 1]
    IN  IF al.objects # 0 /\ al.poolIndex < al.objects
        THEN [al |-> used([al EXCEPT !.poolIndex = @ + 1, !.blockCount = @ + 1]),
              blk |-> al.memory + al.poolIndex * al.size,
              calls |-> 0, fresh |-> TRUE, fatal |-> FALSE]
        ELSE IF al.objects = 0
        THEN [al |-> used([al EXCEPT !.blockCount = @ + 1]), blk |-> top,
              calls |-> 1, fresh |-> TRUE, fatal |-> FALSE]
        ELSE IF al.head # NULL
        THEN [al |-> used([al EXCEPT !.head = Read(m, al.head).v]), blk |-> al.head,
              calls |-> 0, fresh |-> FALSE, fatal |-> FALSE]
        ELSE [al |-> al, blk |-> NULL, calls |-> 0, fresh |-> FALSE, fatal |-> TRUE]

\* An Allocate whose pool bound is off by one: the slot past the pool is issued.
Allocate_offByOne(al, m, top) ==
    LET used(a) == [a EXCEPT !.blocksInUse = @ + 1]
    IN  IF al.head # NULL
        THEN [al |-> used([al EXCEPT !.head = Read(m, al.head).v]), blk |-> al.head,
              calls |-> 0, fresh |-> FALSE, fatal |-> FALSE]
        ELSE IF al.objects # 0
        THEN IF al.poolIndex <= al.objects
             THEN [al |-> used([al EXCEPT !.poolIndex = @ + 1, !.blockCount = @ + 1]),
                   blk |-> al.memory + al.poolIndex * al.size,
                   calls |-> 0, fresh |-> TRUE, fatal |-> FALSE]
             ELSE [al |-> al, blk |-> NULL, calls |-> 0, fresh |-> FALSE, fatal |-> TRUE]
        ELSE [al |-> used([al EXCEPT !.blockCount = @ + 1]), blk |-> top,
              calls |-> 1, fresh |-> TRUE, fatal |-> FALSE]

\* An Allocate that turns to the heap when its pool has no slot left.
Allocate_heapWhenDry(al, m, top) ==
    LET p == Pop(al, m)
        used(a) == [a EXCEPT !.blocksInUse = @ + 1]
    IN  IF p.blk # NULL
        THEN [al |-> used(p.al), blk |-> p.blk, calls |-> 0,
              fresh |-> FALSE, fatal |-> FALSE]
        ELSE IF al.objects # 0 /\ al.poolIndex < al.objects
        THEN [al |-> used([al EXCEPT !.poolIndex = @ + 1, !.blockCount = @ + 1]),
              blk |-> al.memory + al.poolIndex * al.size,
              calls |-> 0, fresh |-> TRUE, fatal |-> FALSE]
        ELSE [al |-> used([al EXCEPT !.blockCount = @ + 1]), blk |-> top,
              calls |-> 1, fresh |-> TRUE, fatal |-> FALSE]

\* Allocator::Allocate: an existing block off the free list, otherwise a new
\* one from the pool (the next slot never issued) or from the heap; a pool
\* with no slot left calls the new-handler.
Allocate(al, m, top) ==
    LET p == Pop(al, m)
        used(a) == [a EXCEPT !.blocksInUse = @ + 1]
    IN  IF p.blk # NULL
        THEN [al |-> used(p.al), blk |-> p.blk, calls |-> 0,
              fresh |-> FALSE, fatal |-> FALSE]
        ELSE IF al.objects # 0
        THEN IF al.poolIndex < al.objects
             THEN [al |-> used([al EXCEPT !.poolIndex = @ + 1, !.blockCount = @ + 1]),
                   blk |-> al.memory + al.poolIndex * al.size,
                   calls |-> 0, fresh |-> TRUE, fatal |-> FALSE]
             ELSE [al |-> al, blk |-> NULL, calls |-> 0,
                   fresh |-> FALSE, fatal |-> TRUE]
        ELSE [al |-> used([al EXCEPT !.blockCount = @ + 1]), blk |-> top,
              calls |-> 1, fresh |-> TRUE, fatal |-> FALSE]

\* A Deallocate that forgets to count the block back in.
Deallocate_nocount(al, m, pBlock) ==
    [al |-> [al EXCEPT !.head = pBlock], mem |-> Store(m, pBlock, Word("link", al.head))]

\* A Deallocate that counts the block back in and drops it.
Deallocate_drop(al, m, pBlock) ==
    [al |-> [al EXCEPT !.blocksInUse = @ - 1], mem |-> m]

\* Allocator::Deallocate: push the block onto the free list (no validation).
Deallocate(al, m, pBlock) ==
    LET p == Push(al, m, pBlock)
    IN  [al |-> [p.al EXCEPT !.blocksInUse = @ - 1], mem |-> p.mem]

\* The free list as the sequence of blocks reached from the head through the
\* links stored in the blocks (at most n of them).
RECURSIVE Chain(_, _, _)
Chain(m, a, n) ==
    IF a = NULL \/ n = 0 THEN <<>>
    ELSE <<a>> \o Chain(m, Read(m, a).v, n - 1)

FreeList(al, m) == Chain(m, al.head, MAX_BLOCKS + MaxHeapBlocks + 1)

\* A destructor that deletes the head of the free list only.
AllocatorDeleted_head(al, m) ==
    IF al.mode = HEAP_POOL THEN <<al.memory>>
    ELSE IF al.mode = HEAP_BLOCKS THEN Chain(m, al.head, 1)
    ELSE <<>>

\* Allocator::~Allocator: heap pool mode deletes the pool, heap blocks mode
\* deletes every block on the free list, static pool mode frees nothing.
\* The addresses given to operator delete, in order.
AllocatorDeleted(al, m) ==
    IF al.mode = HEAP_POOL THEN <<al.memory>>
    ELSE IF al.mode = HEAP_BLOCKS THEN FreeList(al, m)
    ELSE <<>>

AllocatorDeleteCalls(al, m) == Len(AllocatorDeleted(al, m))

\* ----------------------------------------------------------- xallocator --
\* nexthigher: the next higher power of two value (k itself when it is one).
\* Arithmetic in size_t is modulo 2^SIZE_BITS.
SIZE_MAX == 2 ^ SIZE_BITS - 1
SizeT(x) == x % (SIZE_MAX + 1)

RECURSIVE PowerOfTwoFrom(_, _)
PowerOfTwoFrom(p, k) == IF p >= k THEN p ELSE PowerOfTwoFrom(2 * p, k)

nexthigher(k) == IF k = 0 THEN 0 ELSE SizeT(PowerOfTwoFrom(1, k))

\* The block size xallocator_get_allocator derives from the requested size.
blockSize(size) ==
    LET bs == SizeT(size + HeaderSize)
    IN  IF bs > 256 /\ bs <= 396 THEN 396
        ELSE IF bs > 512 /\ bs <= 768 THEN 768
        ELSE nexthigher(bs)

\* set_block_allocator: the Allocator* goes into the block's first word and the
\* client gets the address just past it.
set_block_allocator(m, block, allocator) ==
    [mem |-> Store(m, block, Word("ref", allocator)), ptr |-> block + HeaderSize]

\* get_block_allocator: the Allocator* hidden before the client's region.
get_block_allocator(m, ptr) == Read(m, ptr - HeaderSize).v

\* A decode that takes the client pointer for the block.
get_block_ptr_same(ptr) == ptr

\* get_block_ptr: the raw block a client pointer belongs to.
get_block_ptr(ptr) == ptr - HeaderSize

\* find_allocator: the slot of the Allocator handling this block size, or NULL.
find_allocator(as, bs) ==
    LET hits == {i \in Slots : as[i] # NoAllocator /\ as[i].size = bs}
    IN  IF hits = {} THEN NULL ELSE CHOOSE i \in hits : \A j \in hits : i <= j

\* An insert_allocator that gives the last slot when no slot is empty.
insert_allocator_last(as) ==
    LET free == {i \in Slots : as[i] = NoAllocator}
    IN  IF free = {} THEN MAX_ALLOCATORS ELSE CHOOSE i \in free : \A j \in free : i <= j

\* insert_allocator: the first empty slot of _allocators[], NULL when full.
insert_allocator(as) ==
    LET free == {i \in Slots : as[i] = NoAllocator}
    IN  IF free = {} THEN NULL ELSE CHOOSE i \in free : \A j \in free : i <= j


\* The part of the state the xallocator functions work on.
Machine == [as |-> allocators, mem |-> mem]

\* xallocator_get_allocator followed by Allocate and set_block_allocator, as
\* xmalloc does.  res is "ok", "fatal" (the pool is exhausted: the new-handler
\* is called and nothing is returned) or "error" (no Allocator handles the
\* size and none can be created).
xmalloc(S, size) ==
    LET bs == blockSize(size)
        found == find_allocator(S.as, bs)
        created == found = NULL
        slot == IF created THEN insert_allocator(S.as) ELSE found
    IN  IF created /\ (staticPools \/ slot = NULL)
        THEN [as |-> S.as, mem |-> S.mem, calls |-> 0, ptr |-> NULL,
              slot |-> NULL, blk |-> NULL, res |-> "error", fresh |-> FALSE]
        ELSE LET al == IF created THEN AllocatorNew(bs, 0, NULL, NULL).al ELSE S.as[slot]
                 r == Allocate(al, S.mem, HeapAddr(slot, al.blockCount, al.size))
                 c == set_block_allocator(S.mem, r.blk, slot)
             IN  IF r.fatal
                 THEN [as |-> S.as, mem |-> S.mem, calls |-> 0,
                       ptr |-> NULL, slot |-> slot, blk |-> NULL, res |-> "fatal",
                       fresh |-> FALSE]
                 ELSE [as |-> [S.as EXCEPT ![slot] = r.al], mem |-> c.mem,
                       calls |-> r.calls + (IF created THEN 1 ELSE 0), ptr |-> c.ptr,
                       slot |-> slot, blk |-> r.blk, res |-> "ok", fresh |-> r.fresh]

\* An xfree that gives the block to the first Allocator of the registry,
\* whatever the header says.
xfree_first(S, ptr) ==
    LET allocator == CHOOSE i \in Slots :
                        /\ S.as[i] # NoAllocator
                        /\ \A j \in Slots : S.as[j] # NoAllocator => i <= j
        blockPtr == ptr - HeaderSize
    IN  [as |-> [S.as EXCEPT ![allocator] =
                    [@ EXCEPT !.head = blockPtr, !.blocksInUse = @ - 1]],
         mem |-> Store(S.mem, blockPtr, Word("link", S.as[allocator].head)),
         slot |-> allocator, blk |-> blockPtr]

\* xfree of a non-null pointer: the Allocator read from the block's header
\* takes the block back.
xfree(S, ptr) ==
    LET allocator == get_block_allocator(S.mem, ptr)
        blockPtr == get_block_ptr(ptr)
        d == Deallocate(S.as[allocator], S.mem, blockPtr)
    IN  [as |-> [S.as EXCEPT ![allocator] = d.al], mem |-> d.mem,
         slot |-> allocator, blk |-> blockPtr]

\* xrealloc: a null pointer is xmalloc; size 0 frees the block and returns
\* null; otherwise a new block is allocated, min(old usable size, size)
\* bytes are copied into it and the old block is freed.  The client region is
\* one word here, copied when at least one byte is (an old region nothing was
\* written to leaves the new one unwritten as well).
\* a is the result of the xmalloc(size) it starts with.
\* An xrealloc that copies nothing into the new block.
xrealloc_copy_none(a, oldMem, size) == [as |-> a.as, mem |-> a.mem]

xrealloc_copy(a, oldMem, size) ==
    LET oldAllocator == get_block_allocator(a.mem, oldMem)
        oldSize == a.as[oldAllocator].size - HeaderSize
        n == IF oldSize < size THEN oldSize ELSE size
    IN  [as |-> a.as,
         mem |-> IF n = 0 THEN a.mem
                 ELSE IF oldMem \in DOMAIN a.mem THEN Store(a.mem, a.ptr, a.mem[oldMem])
                 ELSE [x \in (DOMAIN a.mem) \ {a.ptr} |-> a.mem[x]]]

xrealloc_with(a, oldMem, size) ==
    IF a.res # "ok"
    THEN [as |-> a.as, mem |-> a.mem, calls |-> a.calls, ptr |-> NULL,
          slot |-> a.slot, blk |-> NULL, res |-> a.res, fresh |-> FALSE,
          freed |-> FALSE]
    ELSE CHOOSE r \in
           {[as |-> f.as, mem |-> f.mem, calls |-> a.calls, ptr |-> a.ptr,
             slot |-> a.slot, blk |-> a.blk, res |-> "ok", fresh |-> a.fresh,
             freed |-> TRUE] : f \in {xfree(xrealloc_copy(a, oldMem, size), oldMem)}} : TRUE

\* An xrealloc that does nothing with a null pointer.
xrealloc_nonull(S, oldMem, size) ==
    IF oldMem = NULL
    THEN [as |-> S.as, mem |-> S.mem, calls |-> 0, ptr |-> NULL, slot |-> NULL,
          blk |-> NULL, res |-> "ok", fresh |-> FALSE, freed |-> FALSE]
    ELSE IF size = 0
    THEN CHOOSE r \in
           {[as |-> f.as, mem |-> f.mem, calls |-> 0, ptr |-> NULL, slot |-> f.slot,
             blk |-> f.blk, res |-> "ok", fresh |-> FALSE, freed |-> TRUE]
              : f \in {xfree(S, oldMem)}} : TRUE
    ELSE CHOOSE r \in {xrealloc_with(a, oldMem, size) : a \in {xmalloc(S, size)}} : TRUE

\* An xrealloc that gives the old block back before it takes the new one.
xrealloc_freeFirst(S, oldMem, size) ==
    IF oldMem = NULL \/ size = 0 THEN xrealloc_nonull(S, IF size = 0 THEN oldMem ELSE NULL, 0)
    ELSE CHOOSE r \in
           {[as |-> a.as, mem |-> a.mem, calls |-> a.calls, ptr |-> a.ptr,
             slot |-> a.slot, blk |-> a.blk, res |-> a.res, fresh |-> a.fresh,
             freed |-> TRUE]
              : a \in {xmalloc([as |-> f.as, mem |-> f.mem], size)
                         : f \in {xfree(S, oldMem)}}} : TRUE

xrealloc(S, oldMem, size) ==
    IF oldMem = NULL
    THEN CHOOSE r \in
           {[as |-> a.as, mem |-> a.mem, calls |-> a.calls, ptr |-> a.ptr,
             slot |-> a.slot, blk |-> a.blk, res |-> a.res, fresh |-> a.fresh,
             freed |-> FALSE] : a \in {xmalloc(S, size)}} : TRUE
    ELSE IF size = 0
    THEN CHOOSE r \in
           {[as |-> f.as, mem |-> f.mem, calls |-> 0, ptr |-> NULL, slot |-> f.slot,
             blk |-> f.blk, res |-> "ok", fresh |-> FALSE, freed |-> TRUE]
              : f \in {xfree(S, oldMem)}} : TRUE
    ELSE CHOOSE r \in {xrealloc_with(a, oldMem, size) : a \in {xmalloc(S, size)}} : TRUE

\* xalloc_stats: one line for every Allocator of _allocators[], in the order
\* of the array: "Block Size", "Block Count" (blocks created), "Blocks In Use".
RECURSIVE StatsFrom(_, _)
StatsFrom(as, i) ==
    IF i > MAX_ALLOCATORS THEN <<>>
    ELSE (IF as[i] = NoAllocator THEN <<>>
          ELSE <<[blockSize |-> as[i].size, blockCount |-> as[i].blockCount,
                  blocksInUse |-> as[i].blocksInUse]>>)
         \o StatsFrom(as, i + 1)

xalloc_stats(as) == StatsFrom(as, 1)

\* ------------------------------------------------------------ history --
\* What the last call was: its operation, the Allocator that served it, the raw
\* block and the result; for xrealloc also which of its arguments were null
\* or zero, for xalloc_stats the lines it put out.
Event(op, slot, blk, res) ==
    [op |-> op, arg |-> "", out |-> <<>>, slot |-> slot, blk |-> blk, res |-> res]

\* xrealloc's arguments: a null pointer, else a zero size, else both given.
ReallocArg(oldMem, size) ==
    IF oldMem = NULL THEN "null" ELSE IF size = 0 THEN "zero" ELSE "resize"

NoEvent == Event("none", NULL, NULL, "ok")

\* The request sizes tried: the smallest and the largest of every size class.
RequestSizes ==
    {n \in 0..MaxRequest :
        n = 0 \/ n = MaxRequest \/ blockSize(n - 1) # blockSize(n) \/ blockSize(n + 1) # blockSize(n)}

Drop(f, h) == [x \in (DOMAIN f) \ {h} |-> f[x]]

\* The modelled heap still has a block to give.
HeapRoom(blocks) == blocks > 0 => Cardinality(DOMAIN origin) < MaxHeapBlocks

Max(a, b) == IF a >= b THEN a ELSE b


\* ------------------------------------------------------------ actions --
NoQuery ==
    [pc |-> "none", size |-> 0, block |-> NULL, allocator |-> NULL, bs |-> 0,
     ptr |-> NULL, outAllocator |-> NULL, outBlock |-> NULL]

\* No lone Allocator, no scripted client, no MotorNew object.
NoLone ==
    [size |-> 0, objects |-> 0, memory |-> NULL, bytes |-> 0, pool |-> NULL,
     deleted |-> <<>>]

NoScript == [asked |-> <<>>, freed |-> NULL, freedSize |-> 0]

NoMotor == [currentState |-> "none"]

\* Static storage zeroed, nothing constructed, nothing allocated.
Blank ==
    /\ xallocInitialized = FALSE
    /\ destroyed = FALSE
    /\ mem = <<>>
    /\ heapReleases = 0
    /\ fatal = FALSE
    /\ live = <<>>
    /\ aliased = FALSE
    /\ origin = <<>>
    /\ hiWater = [i \in Slots |-> 0]
    /\ last = NoEvent
    /\ net = [i \in Slots |-> 0]
    /\ criticalSection = [valid |-> FALSE, owner |-> NULL, misuse |-> FALSE]
    /\ calls = [init |-> 0, destroy |-> 0]
    /\ refCount = 0

\* No allocator of its own, no static objects, no threads: one client calling
\* the API.
Init ==
    /\ staticPools \in BOOLEAN
    /\ allocators = [i \in Slots |-> NoAllocator]
    /\ heapCalls = 0
    /\ Blank
    /\ q = NoQuery
    /\ units = <<>>
    /\ threads = <<>>
    /\ lone = NoLone
    /\ script = NoScript
    /\ motor = NoMotor

\* lock_init: InitializeCriticalSection and _xallocInitialized = TRUE;
\* lock_destroy undoes both (a critical section deleted while a thread owns it
\* is misused).
lock_destroy(cs) ==
    [cs EXCEPT !.valid = FALSE, !.owner = NULL, !.misuse = @ \/ cs.owner # NULL]

\* xalloc_init: lock_init, and with STATIC_POOLS every Allocator is built in
\* place over its static storage and entered into _allocators[].
\* An AllocatorPool that is given no static storage.
StaticPool_heap(i) ==
    AllocatorNew(StaticSizes[i], MAX_BLOCKS, NULL, HeapAddr(i, 0, StaticSizes[i]))

StaticPool(i) == AllocatorNew(StaticSizes[i], MAX_BLOCKS, PoolBase(i), NULL)

RECURSIVE StaticPoolCalls(_)
StaticPoolCalls(n) == IF n = 0 THEN 0 ELSE StaticPoolCalls(n - 1) + StaticPool(n).calls

xalloc_init ==
    /\ xallocInitialized' = TRUE
    /\ criticalSection' = [criticalSection EXCEPT !.valid = TRUE, !.owner = NULL]
    /\ calls' = [calls EXCEPT !.init = @ + 1]
    /\ allocators' = IF staticPools THEN [i \in Slots |-> StaticPool(i).al] ELSE allocators
    /\ heapCalls' = heapCalls + (IF staticPools THEN StaticPoolCalls(MAX_ALLOCATORS) ELSE 0)
    /\ UNCHANGED <<staticPools, lone, destroyed, mem, heapReleases,
                   fatal, live, aliased, origin, hiWater, last, net, q>>

\* xalloc_init called by hand, once, before the API is used by threads.
XallocInit ==
    /\ ~xallocInitialized /\ ~destroyed /\ ~fatal
    /\ xalloc_init
    /\ UNCHANGED users

\* The xallocator API may be used: not after xalloc_destroy or the new-handler,
\* and with STATIC_POOLS not before xalloc_init.
Callable == ~fatal /\ ~destroyed /\ (staticPools => xallocInitialized)

XmallocCall(size) ==
    /\ \E r \in {xmalloc(Machine, size)} :
           /\ HeapRoom(IF r.fresh /\ ~staticPools THEN 1 ELSE 0)
           /\ allocators' = r.as
           /\ mem' = r.mem
           /\ heapCalls' = heapCalls + r.calls
           /\ fatal' = (r.res = "fatal")
           /\ last' = Event("alloc", r.slot, r.blk, r.res)
           /\ IF r.res = "ok"
              THEN /\ live' = Store(live, r.ptr, [slot |-> r.slot, some |-> size > 0, val |-> 0])
                   /\ aliased' = (aliased \/ r.ptr \in DOMAIN live)
                   /\ origin' = IF r.fresh THEN Store(origin, r.blk, r.slot) ELSE origin
                   /\ hiWater' = [hiWater EXCEPT ![r.slot] = Max(@, r.as[r.slot].blocksInUse)]
                   /\ net' = [net EXCEPT ![r.slot] = @ + 1]
              ELSE UNCHANGED <<live, aliased, origin, hiWater, net>>
    /\ UNCHANGED <<staticPools, lone, criticalSection, calls, xallocInitialized, destroyed,
                   heapReleases, q>>

Xmalloc(size) == Callable /\ XmallocCall(size) /\ UNCHANGED users

XfreeCall(ptr) ==
    /\ ptr \in DOMAIN live
    /\ \E r \in {xfree(Machine, ptr)} :
           /\ allocators' = r.as
           /\ mem' = r.mem
           /\ last' = Event("free", r.slot, r.blk, "ok")
           /\ net' = [net EXCEPT ![r.slot] = @ - 1]
    /\ live' = Drop(live, ptr)
    /\ UNCHANGED <<staticPools, lone, criticalSection, calls, xallocInitialized, destroyed,
                   heapCalls, heapReleases, fatal, aliased, origin, hiWater, q>>

Xfree(ptr) == Callable /\ XfreeCall(ptr) /\ UNCHANGED users

\* The client writes a byte pattern into the region it was given (the bytes it
\* asked for, so nothing when it asked for none).
Write(ptr, v) ==
    /\ Callable
    /\ ptr \in DOMAIN live
    /\ live[ptr].some
    /\ live[ptr].val # v
    /\ mem' = Store(mem, ptr, Word("data", v))
    /\ live' = [live EXCEPT ![ptr].val = v]
    /\ UNCHANGED <<staticPools, lone, criticalSection, calls, users, xallocInitialized,
                   destroyed, allocators, heapCalls,
                   heapReleases, fatal, aliased, origin, hiWater, last, net, q>>

Xrealloc(ptr, size) ==
    /\ Callable
    /\ ptr \in DOMAIN live \/ ptr = NULL
    /\ \E r \in {xrealloc(Machine, ptr, size)} :
       LET kept == IF r.freed THEN Drop(live, ptr) ELSE live
           old == IF ptr = NULL THEN [slot |-> NULL, some |-> FALSE, val |-> 0]
                  ELSE live[ptr]
       IN  /\ HeapRoom(IF r.fresh /\ ~staticPools THEN 1 ELSE 0)
           /\ allocators' = r.as
           /\ mem' = r.mem
           /\ heapCalls' = heapCalls + r.calls
           /\ fatal' = (r.res = "fatal")
           /\ last' = [Event("realloc", r.slot, r.blk, r.res)
                         EXCEPT !.arg = ReallocArg(ptr, size)]
           /\ live' = IF r.ptr # NULL
                      THEN Store(kept, r.ptr,
                                 [slot |-> r.slot, some |-> size > 0, val |-> old.val])
                      ELSE kept
           /\ aliased' = (aliased \/ (r.ptr # NULL /\ r.ptr \in DOMAIN live))
           /\ origin' = IF r.fresh THEN Store(origin, r.blk, r.slot) ELSE origin
           /\ hiWater' = IF r.ptr # NULL
                         THEN [hiWater EXCEPT ![r.slot] =
                                 Max(@, r.as[r.slot].blocksInUse + (IF r.slot = old.slot THEN 1 ELSE 0))]
                         ELSE hiWater
           /\ net' = [i \in Slots |->
                         net[i] + (IF r.ptr # NULL /\ i = r.slot THEN 1 ELSE 0)
                                - (IF r.freed /\ i = get_block_allocator(mem, ptr) THEN 1 ELSE 0)]
    /\ UNCHANGED <<staticPools, lone, criticalSection, calls, users, xallocInitialized,
                   destroyed, heapReleases, q>>

\* xalloc_stats called by the application.
XallocStats ==
    /\ Callable
    /\ last' = [Event("stats", NULL, NULL, "ok") EXCEPT !.out = xalloc_stats(allocators)]
    /\ UNCHANGED <<staticPools, lone, criticalSection, calls, users, xallocInitialized,
                   destroyed, allocators, mem, heapCalls, heapReleases, fatal, live,
                   aliased, origin, hiWater, net, q>>

\* The slots xalloc_destroy visits: all of them with STATIC_POOLS, otherwise
\* those before the first null entry.
DestroyedSlots ==
    IF staticPools \/ insert_allocator(allocators) = NULL THEN Slots
    ELSE 1..(insert_allocator(allocators) - 1)

RECURSIVE DeleteCalls(_)
DeleteCalls(n) ==
    IF n = 0 THEN 0
    ELSE DeleteCalls(n - 1)
         + (IF n \in DestroyedSlots
            THEN AllocatorDeleteCalls(allocators[n], mem) + (IF staticPools THEN 0 ELSE 1)
            ELSE 0)

\* xalloc_destroy: every Allocator is destroyed (in place with STATIC_POOLS,
\* with delete otherwise) and its entry set to null, then lock_destroy.
xalloc_destroy ==
    /\ allocators' = [i \in Slots |-> IF i \in DestroyedSlots THEN NoAllocator ELSE allocators[i]]
    /\ heapReleases' = heapReleases + DeleteCalls(MAX_ALLOCATORS)
    /\ xallocInitialized' = FALSE
    /\ criticalSection' = lock_destroy(criticalSection)
    /\ calls' = [calls EXCEPT !.destroy = @ + 1]
    /\ destroyed' = TRUE
    /\ UNCHANGED <<staticPools, lone, mem, heapCalls, fatal, live, aliased, origin, hiWater, last,
                   net, q>>

\* xalloc_destroy called by hand, once, when the application is done with the API.
XallocDestroy ==
    /\ xallocInitialized /\ ~destroyed /\ ~fatal
    /\ xalloc_destroy
    /\ UNCHANGED users

Next ==
    \/ XallocInit
    \/ XallocDestroy
    \/ XallocStats
    \/ \E ptr \in DOMAIN live \cup {NULL}, size \in RequestSizes : Xrealloc(ptr, size)
    \/ \E size \in RequestSizes : Xmalloc(size)
    \/ \E ptr \in DOMAIN live : Xfree(ptr)
    \/ \E ptr \in DOMAIN live, v \in 1..MaxData : Write(ptr, v)

Spec == Init /\ [][Next]_vars


\* ------------------------------------- an Allocator used on its own --
\* A class that declares its own Allocator (DECLARE_ALLOCATOR) calls Allocate
\* and Deallocate directly: the client gets the raw block.  The Allocator
\* lives in slot 1; any constructor arguments.
PoolSizes == {LinkSize - 2, LinkSize, 2 * LinkSize}

InitPool ==
    /\ staticPools = FALSE
    /\ \E size \in PoolSizes, objects \in 0..MAX_BLOCKS, memory \in {NULL, PoolBase(1)} :
         \E c \in {AllocatorNew(size, objects, memory, HeapAddr(1, 0, size))} :
            /\ allocators = [i \in Slots |-> IF i = 1 THEN c.al ELSE NoAllocator]
            /\ heapCalls = c.calls
            /\ lone = [size |-> size, objects |-> objects, memory |-> memory,
                       bytes |-> c.bytes,
                       pool |-> IF c.calls = 1 THEN c.al.memory ELSE NULL,
                       deleted |-> <<>>]
    /\ Blank
    /\ q = NoQuery
    /\ units = <<>>
    /\ threads = <<>>
    /\ script = NoScript
    /\ motor = NoMotor

PoolAllocate ==
    /\ ~fatal /\ ~destroyed
    /\ \E r \in {Allocate(allocators[1], mem,
                          HeapAddr(1, allocators[1].blockCount, allocators[1].size))} :
           /\ HeapRoom(r.calls)
           /\ allocators' = [allocators EXCEPT ![1] = r.al]
           /\ heapCalls' = heapCalls + r.calls
           /\ fatal' = r.fatal
           /\ last' = Event("alloc", 1, r.blk,
                            IF r.fatal THEN "fatal" ELSE "ok")
           /\ live' = IF r.fatal THEN live
                      ELSE Store(live, r.blk, [slot |-> 1, some |-> TRUE, val |-> 0])
           /\ aliased' = (aliased \/ (~r.fatal /\ r.blk \in DOMAIN live))
           /\ origin' = IF r.fresh THEN Store(origin, r.blk, 1) ELSE origin
           /\ hiWater' = [hiWater EXCEPT ![1] = Max(@, r.al.blocksInUse)]
           /\ net' = [net EXCEPT ![1] = @ + (IF r.fatal THEN 0 ELSE 1)]
    /\ UNCHANGED <<staticPools, lone, criticalSection, calls, users, xallocInitialized,
                   destroyed, mem, heapReleases, q>>

PoolDeallocate(pBlock) ==
    /\ ~fatal /\ ~destroyed
    /\ pBlock \in DOMAIN live
    /\ \E d \in {Deallocate(allocators[1], mem, pBlock)} :
           /\ allocators' = [allocators EXCEPT ![1] = d.al]
           /\ mem' = d.mem
    /\ last' = Event("free", 1, pBlock, "ok")
    /\ net' = [net EXCEPT ![1] = @ - 1]
    /\ live' = Drop(live, pBlock)
    /\ UNCHANGED <<staticPools, lone, criticalSection, calls, users, xallocInitialized,
                   destroyed, heapCalls, heapReleases,
                   fatal, aliased, origin, hiWater, q>>

\* The Allocator's destructor.
PoolDestroy ==
    /\ ~fatal /\ ~destroyed
    /\ destroyed' = TRUE
    /\ heapReleases' = heapReleases + AllocatorDeleteCalls(allocators[1], mem)
    /\ lone' = [lone EXCEPT !.deleted = AllocatorDeleted(allocators[1], mem)]
    /\ allocators' = [allocators EXCEPT ![1] = NoAllocator]
    /\ UNCHANGED <<staticPools, criticalSection, calls, users, xallocInitialized, mem, heapCalls, fatal, live, aliased,
                   origin, hiWater, last, net, q>>

NextPool ==
    \/ PoolAllocate
    \/ PoolDestroy
    \/ \E pBlock \in DOMAIN live : PoolDeallocate(pBlock)
    \/ \E ptr \in DOMAIN live, v \in 1..MaxData : Write(ptr, v)

SpecPool == InitPool /\ [][NextPool]_vars

\* ------------------------ the size rounding and the codec on their own --
\* Any request size, any raw block and any Allocator; the functions are
\* applied one after the other.
InitPure ==
    /\ staticPools = FALSE
    /\ allocators = [i \in Slots |-> NoAllocator]
    /\ heapCalls = 0
    /\ Blank
    /\ units = <<>>
    /\ threads = <<>>
    /\ lone = NoLone
    /\ script = NoScript
    /\ motor = NoMotor
    /\ \E size \in (0..MaxClassify) \cup ((SIZE_MAX - TopSizes + 1)..SIZE_MAX),
          block \in {PoolBase(1), HeapBase + LinkSize},
          allocator \in Slots :
         q = [NoQuery EXCEPT !.pc = "input", !.size = size, !.block = block,
                             !.allocator = allocator]

Classify ==
    /\ q.pc = "input"
    /\ q' = [q EXCEPT !.pc = "classified", !.bs = blockSize(q.size)]
    /\ UNCHANGED <<staticPools, lone, criticalSection, calls, users, xallocInitialized,
                   destroyed, allocators, mem, heapCalls,
                   heapReleases, fatal, live, aliased, origin, hiWater, last, net>>

\* xmalloc of the size, on a Router that has served nothing else.
Serve ==
    /\ q.pc = "classified"
    /\ Xmalloc(q.size)

Encode ==
    /\ q.pc = "classified"
    /\ last = NoEvent
    /\ \E c \in {set_block_allocator(mem, q.block, q.allocator)} :
           /\ mem' = c.mem
           /\ q' = [q EXCEPT !.pc = "encoded", !.ptr = c.ptr]
    /\ UNCHANGED <<staticPools, lone, criticalSection, calls, users, xallocInitialized,
                   destroyed, allocators, heapCalls,
                   heapReleases, fatal, live, aliased, origin, hiWater, last, net>>

Decode ==
    /\ q.pc = "encoded"
    /\ q' = [q EXCEPT !.pc = "decoded", !.outAllocator = get_block_allocator(mem, q.ptr),
                      !.outBlock = get_block_ptr(q.ptr)]
    /\ UNCHANGED <<staticPools, lone, criticalSection, calls, users, xallocInitialized,
                   destroyed, allocators, mem, heapCalls,
                   heapReleases, fatal, live, aliased, origin, hiWater, last, net>>

NextPure == Classify \/ Serve \/ Encode \/ Decode

SpecPure == InitPure /\ [][NextPure]_vars


\* ------------------------------------------ threads calling the xallocator --
\* xmalloc, xfree and xrealloc run by threads.  A step reads shared memory
\* (lock_get with the search of _allocators[] and the read of the Allocator's
\* fields) or writes it (the entry of a new Allocator; what Allocate or
\* Deallocate made of the fields read, with lock_release); the header
\* accesses outside the lock are steps of their own.
Threads == 1..NThreads

\* The sizes threads ask for: one of the smallest and one of the largest class.
ThreadSizes == {1, MaxRequest}

\* EnterCriticalSection: the values _criticalSection may take for thread t.
\* None while another thread is inside (t waits); on a critical section that
\* was never initialised the behaviour is undefined: t may get in or not.
EnterCriticalSection(cs, t) ==
    IF ~cs.valid
    THEN {[cs EXCEPT !.misuse = TRUE], [cs EXCEPT !.misuse = TRUE, !.owner = t]}
    ELSE IF cs.owner = NULL THEN {[cs EXCEPT !.owner = t]} ELSE {}

LeaveCriticalSection(cs, t) ==
    IF cs.valid /\ cs.owner = t THEN [cs EXCEPT !.owner = NULL]
    ELSE [cs EXCEPT !.misuse = TRUE, !.owner = NULL]

\* A lock_get that never enters the critical section.
lock_get_skip(cs, initialized, t) == {cs}

\* A lock_get without the _xallocInitialized check.
lock_get_always(cs, initialized, t) == EnterCriticalSection(cs, t)

\* lock_get: skipped until lock_init has run.
lock_get(cs, initialized, t) ==
    IF initialized = FALSE THEN {cs} ELSE EnterCriticalSection(cs, t)

\* A lock_release that leaves the critical section owned.
lock_release_keep(cs, initialized, t) == cs

\* lock_release: likewise.
lock_release(cs, initialized, t) ==
    IF initialized = FALSE THEN cs ELSE LeaveCriticalSection(cs, t)

\* A thread's position (pc) and locals: op is the API function it called with
\* ptr and size, allocator the Allocator it works on, al the Allocator fields
\* it has read, block the raw block, newMem the pointer xrealloc got from
\* xmalloc, res how xmalloc ended.
Idle ==
    [pc |-> "idle", op |-> "none", ptr |-> NULL, size |-> 0, allocator |-> NULL,
     al |-> NoAllocator, block |-> NULL, newMem |-> NULL, res |-> "ok"]

Quiet == \A t \in DOMAIN threads : threads[t].pc = "idle"

\* The pointers threads are working on: no two calls use the same one.
Busy == {threads[t].ptr : t \in DOMAIN threads} \cup {threads[t].newMem : t \in DOMAIN threads}

\* The calls that have yet to take their block.
Asking == {t \in DOMAIN threads : threads[t].pc \in {"lock", "new", "take"}}

\* The positions between lock_get and lock_release: the code that reads and
\* writes _allocators[] and the free-lists.
LockedCode == {"new", "take", "link", "teardown"}

Inside == {t \in DOMAIN threads : threads[t].pc \in LockedCode}

\* What no step of a thread changes.
apart == <<staticPools, lone, xallocInitialized, destroyed, heapReleases, hiWater, last,
           net, q, calls, refCount, units, script, motor>>

At(t, pc) == ~fatal /\ threads[t].pc = pc

Goto(t, rec) == threads' = [threads EXCEPT ![t] = rec]

\* xfree's first lines: return on a null pointer, else read the header.
\* An xfree without the null check.
xfree_enter_nocheck(m, ptr) ==
    [done |-> FALSE, allocator |-> get_block_allocator(m, ptr),
     blockPtr |-> get_block_ptr(ptr)]

xfree_enter(m, ptr) ==
    IF ptr = NULL THEN [done |-> TRUE, allocator |-> NULL, blockPtr |-> NULL]
    ELSE [done |-> FALSE, allocator |-> get_block_allocator(m, ptr),
          blockPtr |-> get_block_ptr(ptr)]

\* A thread calls xmalloc, xfree or xrealloc.  Before xalloc_init the system
\* is single threaded.
Call(t, op, ptr, size) ==
    /\ Callable
    /\ threads[t].pc = "idle"
    /\ \A u \in DOMAIN threads : threads[u].op # "xalloc_destroy"
    /\ xallocInitialized \/ Quiet
    /\ ptr = NULL \/ (ptr \in DOMAIN live /\ ptr \notin Busy)
    /\ (op = "xmalloc" \/ (op = "xrealloc" /\ (ptr = NULL \/ size # 0)))
          => (staticPools \/ Cardinality(DOMAIN origin) + Cardinality(Asking) < MaxHeapBlocks)
    /\ Goto(t, [Idle EXCEPT !.op = op, !.ptr = ptr, !.size = size,
                            !.pc = IF op = "xfree" THEN "enter"
                                   ELSE IF op = "xrealloc" /\ ptr # NULL /\ size = 0
                                   THEN "enter" ELSE "lock"])
    /\ UNCHANGED <<apart, allocators, mem, heapCalls, fatal, live, aliased, origin,
                   criticalSection>>

\* ptr (null or the pointer stamped into a block) is from now on held outside
\* the xallocator.
Issue(t, ptr) ==
    /\ live' = IF ptr = NULL THEN live
               ELSE Store(live, ptr, [slot |-> threads[t].allocator,
                                      some |-> threads[t].size > 0, val |-> 0])
    /\ aliased' = (aliased \/ (ptr # NULL /\ ptr \in DOMAIN live))

\* ---- xmalloc
\* lock_get(); xallocator_get_allocator: find_allocator(blockSize); the fields
\* of the Allocator found are read for Allocate.
MLock(t) ==
    /\ At(t, "lock")
    /\ \E cs \in lock_get(criticalSection, xallocInitialized, t) :
           criticalSection' = cs
    /\ \E a \in {find_allocator(allocators, blockSize(threads[t].size))} :
           Goto(t, IF a = NULL THEN [threads[t] EXCEPT !.pc = "new"]
                   ELSE [threads[t] EXCEPT !.allocator = a, !.al = allocators[a],
                                           !.pc = "take"])
    /\ UNCHANGED <<apart, allocators, mem, heapCalls, fatal, live, aliased, origin>>

\* No Allocator was found: a new one is entered with insert_allocator; when
\* that cannot be, lock_release() and xmalloc returns null.
MNew(t) ==
    /\ At(t, "new")
    /\ \E a \in {insert_allocator(allocators)} :
           IF staticPools \/ a = NULL
           THEN /\ Goto(t, Idle)
                /\ criticalSection' = lock_release(criticalSection, xallocInitialized, t)
                /\ UNCHANGED <<allocators, heapCalls>>
           ELSE \E n \in {AllocatorNew(blockSize(threads[t].size), 0, NULL, NULL).al} :
                /\ allocators' = [allocators EXCEPT ![a] = n]
                /\ heapCalls' = heapCalls + 1
                /\ Goto(t, [threads[t] EXCEPT !.allocator = a, !.al = n, !.pc = "take"])
                /\ UNCHANGED criticalSection
    /\ UNCHANGED <<apart, mem, fatal, live, aliased, origin>>

\* allocator->Allocate(size) writes the Allocator's fields back with the block
\* taken; lock_release().
MTake(t) ==
    /\ At(t, "take")
    /\ \E r \in {Allocate(threads[t].al, mem,
                          HeapAddr(threads[t].allocator, threads[t].al.blockCount,
                                   threads[t].al.size))} :
           /\ fatal' = r.fatal
           /\ heapCalls' = heapCalls + r.calls
           /\ allocators' = IF r.fatal THEN allocators
                            ELSE [allocators EXCEPT ![threads[t].allocator] = r.al]
           /\ origin' = IF r.fresh THEN Store(origin, r.blk, threads[t].allocator) ELSE origin
           /\ criticalSection' = IF r.fatal THEN criticalSection
                                 ELSE lock_release(criticalSection, xallocInitialized, t)
           /\ Goto(t, [threads[t] EXCEPT !.block = r.blk, !.al = NoAllocator,
                                         !.pc = IF r.fatal THEN "handler" ELSE "stamp"])
    /\ UNCHANGED <<apart, mem, live, aliased>>

\* set_block_allocator(blockMemoryPtr, allocator); xmalloc returns the pointer,
\* xrealloc goes on with it: memcpy(newMem, oldMem, min(oldSize, size)), then
\* xfree(oldMem).
MStamp(t) ==
    /\ At(t, "stamp")
    /\ \E c \in {set_block_allocator(mem, threads[t].block, threads[t].allocator)} :
           IF threads[t].op = "xrealloc" /\ threads[t].ptr # NULL
           THEN /\ mem' = xrealloc_copy([as |-> allocators, mem |-> c.mem, ptr |-> c.ptr],
                                        threads[t].ptr, threads[t].size).mem
                /\ Goto(t, [threads[t] EXCEPT !.newMem = c.ptr, !.pc = "enter"])
                /\ Issue(t, c.ptr)
           ELSE /\ mem' = c.mem
                /\ Goto(t, Idle)
                /\ Issue(t, c.ptr)
    /\ UNCHANGED <<apart, allocators, heapCalls, fatal, origin, criticalSection>>

\* ---- xfree
\* if (ptr == 0) return; get_block_allocator(ptr); get_block_ptr(ptr): the
\* header is read before the lock is asked for.
FEnter(t) ==
    /\ At(t, "enter")
    /\ \E e \in {xfree_enter(mem, threads[t].ptr)} :
           IF e.done
           THEN Goto(t, Idle)
           ELSE Goto(t, [threads[t] EXCEPT !.allocator = e.allocator,
                                           !.block = e.blockPtr, !.pc = "give"])
    /\ UNCHANGED <<apart, allocators, mem, heapCalls, fatal, live, aliased, origin,
                   criticalSection>>

\* lock_get(); the Allocator's fields are read for Deallocate (a pointer that
\* is not an Allocator's reads anything).
FLock(t) ==
    /\ At(t, "give")
    /\ \E cs \in lock_get(criticalSection, xallocInitialized, t) :
           criticalSection' = cs
    /\ Goto(t, [threads[t] EXCEPT
                  !.al = IF threads[t].allocator \in Slots
                         THEN allocators[threads[t].allocator] ELSE NoAllocator,
                  !.pc = "link"])
    /\ live' = [p \in (DOMAIN live) \ {threads[t].ptr} |-> live[p]]
    /\ UNCHANGED <<apart, allocators, mem, heapCalls, fatal, aliased, origin>>

\* allocator->Deallocate(blockPtr) writes the fields back with the block
\* linked in; lock_release(); the call returns.
FLink(t) ==
    /\ At(t, "link")
    /\ \E d \in {Deallocate(threads[t].al, mem, threads[t].block)} :
           /\ allocators' = IF threads[t].allocator \in Slots
                            THEN [allocators EXCEPT ![threads[t].allocator] = d.al]
                            ELSE allocators
           /\ mem' = d.mem
    /\ criticalSection' = lock_release(criticalSection, xallocInitialized, t)
    /\ Goto(t, Idle)
    /\ UNCHANGED <<apart, heapCalls, fatal, live, aliased, origin>>

\* ---- xalloc_destroy
\* What the steps of xalloc_destroy leave alone besides.
apartExit == <<staticPools, lone, hiWater, last, net, q, refCount, units, script, motor>>

\* The application exits: with every other call returned, a thread calls
\* xalloc_destroy, once, after xalloc_init.
CallDestroy(t) ==
    /\ Quiet
    /\ xallocInitialized /\ ~destroyed /\ ~fatal
    /\ Goto(t, [Idle EXCEPT !.op = "xalloc_destroy", !.pc = "exit"])
    /\ UNCHANGED <<apart, allocators, mem, heapCalls, fatal, live, aliased, origin,
                   criticalSection>>

\* lock_get();
DLock(t) ==
    /\ At(t, "exit")
    /\ \E cs \in lock_get(criticalSection, xallocInitialized, t) :
           criticalSection' = cs
    /\ Goto(t, [threads[t] EXCEPT !.pc = "teardown"])
    /\ UNCHANGED <<apart, allocators, mem, heapCalls, fatal, live, aliased, origin>>

\* The loop over _allocators[]: every Allocator is destroyed and its entry
\* set to 0 (without STATIC_POOLS the loop ends at the first entry that is
\* 0); lock_release();
DTeardown(t) ==
    /\ At(t, "teardown")
    /\ allocators' = [i \in Slots |-> IF i \in DestroyedSlots THEN NoAllocator ELSE allocators[i]]
    /\ heapReleases' = heapReleases + DeleteCalls(MAX_ALLOCATORS)
    /\ criticalSection' = lock_release(criticalSection, xallocInitialized, t)
    /\ Goto(t, [threads[t] EXCEPT !.pc = "unlocked"])
    /\ UNCHANGED <<apartExit, xallocInitialized, destroyed, calls, mem, heapCalls, fatal,
                   live, aliased, origin>>

\* lock_destroy(); xalloc_destroy returns.
DDestroy(t) ==
    /\ At(t, "unlocked")
    /\ criticalSection' = lock_destroy(criticalSection)
    /\ xallocInitialized' = FALSE
    /\ destroyed' = TRUE
    /\ calls' = [calls EXCEPT !.destroy = @ + 1]
    /\ Goto(t, Idle)
    /\ UNCHANGED <<apartExit, heapReleases, allocators, mem, heapCalls, fatal, live,
                   aliased, origin>>

InitThreads ==
    /\ staticPools \in BOOLEAN
    /\ allocators = [i \in Slots |-> NoAllocator]
    /\ heapCalls = 0
    /\ Blank
    /\ q = NoQuery
    /\ units = <<>>
    /\ threads = [t \in Threads |-> Idle]
    /\ lone = NoLone
    /\ script = NoScript
    /\ motor = NoMotor

\* xrealloc is called with a pointer and a size: with a null pointer it runs
\* the steps of xmalloc and with size 0 those of xfree.
NextThreads ==
    \/ Quiet /\ XallocInit
    \/ \E t \in Threads, size \in ThreadSizes : Call(t, "xmalloc", NULL, size)
    \/ \E t \in Threads, ptr \in DOMAIN live \cup {NULL} : Call(t, "xfree", ptr, 0)
    \/ \E t \in Threads, ptr \in DOMAIN live, size \in ThreadSizes :
          Call(t, "xrealloc", ptr, size)
    \/ \E t \in Threads : MLock(t)
    \/ \E t \in Threads : MNew(t)
    \/ \E t \in Threads : MTake(t)
    \/ \E t \in Threads : MStamp(t)
    \/ \E t \in Threads : FEnter(t)
    \/ \E t \in Threads : FLock(t)
    \/ \E t \in Threads : FLink(t)
    \/ \E t \in Threads : CallDestroy(t)
    \/ \E t \in Threads : DLock(t)
    \/ \E t \in Threads : DTeardown(t)
    \/ \E t \in Threads : DDestroy(t)

SpecThreads == InitThreads /\ [][NextThreads]_vars


\* ----------------------------- static objects of the translation units --
\* Every translation unit that includes xallocator.h has its own static
\* xallocInitDestroy, defined before any static object of the user's (a
\* MyClassStatic, whose constructor calls xmalloc and whose destructor
\* calls xfree).  Within a unit construction follows the order of definition
\* and destruction reverses it; between units the order is any.  Destruction
\* starts when the program exits, with every static object constructed.
Units == 1..NUnits

NoObjects == [phase |-> "none", memory |-> NULL]

\* A constructor that calls xalloc_init whatever the count.
XallocInitDestroy_ctor_each(rc) == [refCount |-> rc + 1, init |-> TRUE]

\* XallocInitDestroy(): if (refCount++ == 0) xalloc_init();
XallocInitDestroy_ctor(rc) == [refCount |-> rc + 1, init |-> rc = 0]

\* A destructor that calls xalloc_destroy whatever the count.
XallocInitDestroy_dtor_each(rc) == [refCount |-> rc - 1, destroy |-> TRUE]

\* ~XallocInitDestroy(): if (--refCount == 0) xalloc_destroy();
XallocInitDestroy_dtor(rc) == [refCount |-> rc - 1, destroy |-> rc - 1 = 0]

Exiting == \A u \in DOMAIN units : units[u].phase \in {"user", "userGone", "done"}

\* static XallocInitDestroy xallocInitDestroy; of unit u is constructed.
BootConstruct(u) ==
    /\ ~fatal
    /\ units[u].phase = "none"
    /\ \E c \in {XallocInitDestroy_ctor(refCount)} :
           /\ refCount' = c.refCount
           /\ IF c.init THEN xalloc_init
              ELSE UNCHANGED <<staticPools, lone, xallocInitialized, destroyed, allocators, mem,
                               heapCalls, heapReleases, fatal, live, aliased, origin,
                               hiWater, last, net, q, criticalSection, calls>>
    /\ units' = [units EXCEPT ![u].phase = "boot"]
    /\ UNCHANGED <<threads, script, motor>>

\* static MyClassStatic myClassStatic; of unit u is constructed:
\* memory = xmalloc(size).
UserConstruct(u, size) ==
    /\ ~fatal
    /\ units[u].phase = "boot"
    /\ XmallocCall(size)
    /\ units' = [units EXCEPT ![u] =
                   [phase |-> "user",
                    memory |-> IF last'.res = "ok" THEN last'.blk + HeaderSize ELSE NULL]]
    /\ UNCHANGED <<refCount, threads, script, motor>>

\* ~MyClassStatic() of unit u: xfree(memory).
UserDestruct(u) ==
    /\ ~fatal
    /\ Exiting
    /\ units[u].phase = "user"
    /\ IF xfree_enter(mem, units[u].memory).done
       THEN UNCHANGED <<staticPools, lone, xallocInitialized, destroyed, allocators, mem,
                        heapCalls, heapReleases, fatal, live, aliased, origin,
                        hiWater, last, net, q, criticalSection, calls>>
       ELSE XfreeCall(units[u].memory)
    /\ units' = [units EXCEPT ![u] = [phase |-> "userGone", memory |-> NULL]]
    /\ UNCHANGED <<refCount, threads, script, motor>>

\* ~XallocInitDestroy() of unit u.
BootDestruct(u) ==
    /\ ~fatal
    /\ units[u].phase = "userGone"
    /\ \E d \in {XallocInitDestroy_dtor(refCount)} :
           /\ refCount' = d.refCount
           /\ IF d.destroy THEN xalloc_destroy
              ELSE UNCHANGED <<staticPools, lone, xallocInitialized, destroyed, allocators, mem,
                               heapCalls, heapReleases, fatal, live, aliased, origin,
                               hiWater, last, net, q, criticalSection, calls>>
    /\ units' = [units EXCEPT ![u].phase = "done"]
    /\ UNCHANGED <<threads, script, motor>>

InitBoot ==
    /\ staticPools \in BOOLEAN
    /\ allocators = [i \in Slots |-> NoAllocator]
    /\ heapCalls = 0
    /\ Blank
    /\ q = NoQuery
    /\ units = [u \in Units |-> NoObjects]
    /\ threads = <<>>
    /\ lone = NoLone
    /\ script = NoScript
    /\ motor = NoMotor

NextBoot ==
    \/ \E u \in Units : BootConstruct(u)
    \/ \E u \in Units, size \in ThreadSizes : UserConstruct(u, size)
    \/ \E u \in Units : UserDestruct(u)
    \/ \E u \in Units : BootDestruct(u)

SpecBoot == InitBoot /\ [][NextBoot]_vars

\* ------------------------------------------- a client that keeps a record --
\* A client of the heap blocks build asks for 10, 12 and 40 bytes and frees
\* what it got, in any order, and notes the size it asked for with every
\* pointer it holds, and the pointer it freed last.
ScenarioSizes == {10, 12, 40}

ScriptAsk(size) ==
    /\ Callable
    /\ XmallocCall(size)
    /\ script' = IF last'.res = "ok"
                 THEN [script EXCEPT !.asked = Store(@, last'.blk + HeaderSize, size)]
                 ELSE script
    /\ UNCHANGED <<refCount, units, threads, motor>>

ScriptFree(ptr) ==
    /\ Callable
    /\ XfreeCall(ptr)
    /\ script' = [asked |-> Drop(script.asked, ptr), freed |-> ptr,
                  freedSize |-> script.asked[ptr]]
    /\ UNCHANGED <<refCount, units, threads, motor>>

InitScenario ==
    /\ staticPools = FALSE
    /\ allocators = [i \in Slots |-> NoAllocator]
    /\ heapCalls = 0
    /\ Blank
    /\ q = NoQuery
    /\ units = <<>>
    /\ threads = <<>>
    /\ lone = NoLone
    /\ script = NoScript
    /\ motor = NoMotor

NextScenario ==
    \/ XallocInit
    \/ \E size \in ScenarioSizes : ScriptAsk(size)
    \/ \E ptr \in DOMAIN live : ScriptFree(ptr)

SpecScenario == InitScenario /\ [][NextScenario]_vars

\* ------------------------------------------------------ state machine --
\* The StateMachine base class serves every class derived from it.  MotorNew
\* is the derived class of the example; "MotorRests" is a derived class with
\* MotorNew's states and transition maps whose Stop state raises no internal
\* event, so that it comes to rest in a state whose map entries are
\* CANNOT_HAPPEN.
Machines == {"MotorNew", "MotorRests"}

\* enum States, in the order of the state map.
States == <<"ST_IDLE", "ST_STOP", "ST_START", "ST_CHANGE_SPEED">>

\* Transition maps in which Halt is not ignored in ST_IDLE.
TRANSITIONS_haltIdle ==
    [SetSpeed |-> [ST_IDLE         |-> "ST_START",
                   ST_STOP         |-> "CANNOT_HAPPEN",
                   ST_START        |-> "ST_CHANGE_SPEED",
                   ST_CHANGE_SPEED |-> "ST_CHANGE_SPEED"],
     Halt     |-> [ST_IDLE         |-> "ST_STOP",
                   ST_STOP         |-> "CANNOT_HAPPEN",
                   ST_START        |-> "ST_STOP",
                   ST_CHANGE_SPEED |-> "ST_STOP"]]

\* BEGIN_TRANSITION_MAP(SetSpeed) and BEGIN_TRANSITION_MAP(Halt): the entry
\* for each current state.
TRANSITIONS ==
    [SetSpeed |-> [ST_IDLE         |-> "ST_START",
                   ST_STOP         |-> "CANNOT_HAPPEN",
                   ST_START        |-> "ST_CHANGE_SPEED",
                   ST_CHANGE_SPEED |-> "ST_CHANGE_SPEED"],
     Halt     |-> [ST_IDLE         |-> "EVENT_IGNORED",
                   ST_STOP         |-> "CANNOT_HAPPEN",
                   ST_START        |-> "ST_STOP",
                   ST_CHANGE_SPEED |-> "ST_STOP"]]

\* The speeds main() sets.
Speeds == {100, 200}

\* MotorNew::MotorNew(): StateMachine(ST_MAX_STATES), m_currentSpeed(0).  ran
\* lists the state functions run so far, asked the external events called,
\* thrown tells that the last call ended in an exception, trapped that it
\* never returned, checks lists the legality checks made during the last
\* call with what they answered and the machine before and after each.
MotorNewCtor(machine) ==
    [machine |-> machine, currentState |-> "ST_IDLE", newState |-> "ST_IDLE",
     eventGenerated |-> FALSE, data |-> NULL, m_currentSpeed |-> 0,
     ran |-> <<>>, asked |-> <<>>, thrown |-> FALSE, trapped |-> FALSE,
     checks |-> <<>>]

\* InternalEvent(newState, data): the event the state engine handles next.
InternalEvent(m, newState, data) ==
    [m EXCEPT !.newState = newState, !.data = data, !.eventGenerated = TRUE]

\* What a legality check could disturb: the state, the pending event, the
\* speed and the state functions run.
Snap(m) ==
    [currentState |-> m.currentState, newState |-> m.newState,
     eventGenerated |-> m.eventGenerated, m_currentSpeed |-> m.m_currentSpeed,
     ran |-> m.ran]

\* A legality check that enters the state it finds in the map.
TRANSITION_CHECK_BODY_enter(m, event) ==
    [m |-> [m EXCEPT !.currentState =
                        IF TRANSITIONS[event][m.currentState] \in Range(States)
                        THEN TRANSITIONS[event][m.currentState] ELSE @],
     allowed |-> TRANSITIONS[event][m.currentState] \in Range(States)]

\* TRANSITION_CHECK_BODY(event): tells whether the map's entry for the
\* current state is a state to enter; the machine is left as it is.
TRANSITION_CHECK_BODY(m, event) ==
    [m |-> m, allowed |-> TRANSITIONS[event][m.currentState] \in Range(States)]

\* A legality check with its answer and the machine before and after it
\* entered in checks.
Checked(m, event) ==
    [TRANSITION_CHECK_BODY(m, event).m EXCEPT
        !.checks = Append(@, [event |-> event,
                              allowed |-> TRANSITION_CHECK_BODY(m, event).allowed,
                              before |-> Snap(m),
                              after |-> Snap(TRANSITION_CHECK_BODY(m, event).m)])]

\* bool MotorNew::SetSpeedAllowed()
SetSpeedAllowed(m) == Checked(m, "SetSpeed")

\* bool MotorNew::HaltAllowed()
HaltAllowed(m) == Checked(m, "Halt")

\* STATE_DEFINE(MotorNew, Idle, NoEventData)
ST_Idle(m) == m

\* A Stop state that raises no internal event.
ST_Stop_rests(m) == SetSpeedAllowed(HaltAllowed([m EXCEPT !.m_currentSpeed = 0]))

\* STATE_DEFINE(MotorNew, Stop, NoEventData)
ST_Stop(m) ==
    IF m.machine = "MotorNew"
    THEN InternalEvent(SetSpeedAllowed(HaltAllowed([m EXCEPT !.m_currentSpeed = 0])),
                       "ST_IDLE", NULL)
    ELSE SetSpeedAllowed(HaltAllowed([m EXCEPT !.m_currentSpeed = 0]))

\* STATE_DEFINE(MotorNew, Start, MotorNewData)
ST_Start(m) == [m EXCEPT !.m_currentSpeed = m.data]

\* A ChangeSpeed state that leaves the speed as it is.
ST_ChangeSpeed_keep(m) == m

\* STATE_DEFINE(MotorNew, ChangeSpeed, MotorNewData)
ST_ChangeSpeed(m) == [m EXCEPT !.m_currentSpeed = m.data]

\* BEGIN_STATE_MAP: the state function of the current state is run.
InvokeStateAction(m) ==
    CASE m.currentState = "ST_IDLE"         -> ST_Idle([m EXCEPT !.ran = Append(@, "Idle")])
      [] m.currentState = "ST_STOP"         -> ST_Stop([m EXCEPT !.ran = Append(@, "Stop")])
      [] m.currentState = "ST_START"        -> ST_Start([m EXCEPT !.ran = Append(@, "Start")])
      [] m.currentState = "ST_CHANGE_SPEED" ->
            ST_ChangeSpeed([m EXCEPT !.ran = Append(@, "ChangeSpeed")])

\* StateEngine: while an event is pending, the machine enters the new state
\* and runs its state function, which may raise the next internal event.
RECURSIVE StateEngine(_)
StateEngine(m) ==
    IF ~m.eventGenerated THEN m
    ELSE StateEngine(InvokeStateAction([m EXCEPT !.eventGenerated = FALSE,
                                                 !.currentState = m.newState]))

\* An ExternalEvent as it was before: an invalid transition traps the caller
\* in an infinite loop.
ExternalEvent_trap(m, newState, data) ==
    IF newState = "CANNOT_HAPPEN" THEN [m EXCEPT !.trapped = TRUE]
    ELSE IF newState = "EVENT_IGNORED" THEN m
    ELSE StateEngine(InternalEvent(m, newState, data))

\* ExternalEvent(newState, data): an invalid transition is blocked by
\* throwing an exception, an ignored event does nothing, any other entry is
\* the state the engine is started for.
ExternalEvent(m, newState, data) ==
    IF newState = "CANNOT_HAPPEN" THEN [m EXCEPT !.thrown = TRUE]
    ELSE IF newState = "EVENT_IGNORED" THEN m
    ELSE StateEngine(InternalEvent(m, newState, data))

\* TRANSITION_BODY(event, data): ExternalEvent with the map's entry for the
\* current state.
TRANSITION_BODY(m, event, data) ==
    ExternalEvent([m EXCEPT !.asked = Append(@, [event |-> event, speed |-> data]),
                            !.thrown = FALSE, !.checks = <<>>],
                  TRANSITIONS[event][m.currentState], data)

\* What the state machine example does not use.
xallocatorState ==
    <<staticPools, xallocInitialized, destroyed, allocators, mem, heapCalls,
      heapReleases, fatal, live, aliased, origin, hiWater, last, net, q,
      criticalSection, calls, refCount, units, threads, lone, script>>

\* motor.SetSpeed(&data), with the caller going on after an exception.
SetSpeed(speed) ==
    /\ ~motor.trapped
    /\ Len(motor.asked) < MaxEvents
    /\ motor' = TRANSITION_BODY(motor, "SetSpeed", speed)
    /\ UNCHANGED xallocatorState

\* motor.Halt()
Halt ==
    /\ ~motor.trapped
    /\ Len(motor.asked) < MaxEvents
    /\ motor' = TRANSITION_BODY(motor, "Halt", NULL)
    /\ UNCHANGED xallocatorState

\* motor.SetSpeedAllowed() called outside the state functions.
AskSetSpeedAllowed ==
    /\ ~motor.trapped
    /\ motor' = SetSpeedAllowed([motor EXCEPT !.thrown = FALSE, !.checks = <<>>])
    /\ UNCHANGED xallocatorState

\* motor.HaltAllowed() called outside the state functions.
AskHaltAllowed ==
    /\ ~motor.trapped
    /\ motor' = HaltAllowed([motor EXCEPT !.thrown = FALSE, !.checks = <<>>])
    /\ UNCHANGED xallocatorState

\* A machine derived from StateMachine, constructed; the allocator is not used.
InitEngine ==
    /\ staticPools = FALSE
    /\ allocators = [i \in Slots |-> NoAllocator]
    /\ heapCalls = 0
    /\ Blank
    /\ q = NoQuery
    /\ units = <<>>
    /\ threads = <<>>
    /\ lone = NoLone
    /\ script = NoScript
    /\ motor \in {MotorNewCtor(machine) : machine \in Machines}

NextEngine ==
    \/ \E speed \in Speeds : SetSpeed(speed)
    \/ Halt

SpecEngine == InitEngine /\ [][NextEngine]_vars

\* main(): MotorNew motor; the allocator is not used.
InitMotor ==
    /\ staticPools = FALSE
    /\ allocators = [i \in Slots |-> NoAllocator]
    /\ heapCalls = 0
    /\ Blank
    /\ q = NoQuery
    /\ units = <<>>
    /\ threads = <<>>
    /\ lone = NoLone
    /\ script = NoScript
    /\ motor = MotorNewCtor("MotorNew")

NextMotor ==
    \/ \E speed \in Speeds : SetSpeed(speed)
    \/ Halt
    \/ AskSetSpeedAllowed
    \/ AskHaltAllowed

SpecMotor == InitMotor /\ [][NextMotor]_vars

\* --------------------------------------------------------- properties --
\* The Allocate call a step is, if it is one: every call leaves another event
\* in last than the one before it.
IsCall(op) == last' # last /\ last'.op = op

Blocks(i) == {b \in DOMAIN origin : origin[b] = i}

\* C1: on a lone Allocator in any mode and any reachable state, Allocate, then
\* Deallocate of the block it returned, then Allocate again returns that same
\* block, and the blocks-in-use count after the second Allocate is the count
\* after the first.  The first two calls are steps of the run and the third
\* is applied to the state the second leaves; when the third is itself the
\* next step it returns the freed block and counts it in again.
C1_LifoReuse ==
    [][ /\ (last.op = "alloc" /\ last.res = "ok" /\ IsCall("free") /\ last'.blk = last.blk)
            => LET a == Allocate(allocators'[1], mem',
                                 HeapAddr(1, allocators'[1].blockCount, allocators'[1].size))
               IN  /\ ~a.fatal
                   /\ a.blk = last.blk
                   /\ a.al.blocksInUse = allocators[1].blocksInUse
        /\ (last.op = "free" /\ IsCall("alloc"))
            => /\ last'.res = "ok"
               /\ last'.blk = last.blk
               /\ allocators'[1].blocksInUse = allocators[1].blocksInUse + 1
      ]_vars

\* A block was allocated, freed (the link is still in its first word) and
\* allocated again, with another block outstanding all along.
C1_Witness ==
    /\ last.op = "alloc" /\ last.res = "ok"
    /\ last.blk \in DOMAIN live
    /\ Read(mem, last.blk).k = "link"
    /\ allocators[1].blocksInUse = 2
    /\ allocators[1].blockCount = 2

\* C2: after any sequence of xmalloc / xfree / xrealloc calls with valid
\* pointers, the blocks-in-use count of every Allocator of the registry is the
\* number of blocks it issued minus the number of blocks it took back.
C2_OutstandingCount ==
    ~destroyed => \A i \in Slots : allocators[i].blocksInUse = net[i]

\* After an xrealloc, one class has two blocks outstanding and another one has
\* had all of its blocks freed.
C2_Witness ==
    /\ last.op = "realloc" /\ ~destroyed
    /\ \E i, j \in Slots :
          /\ net[i] = 2
          /\ allocators[j] # NoAllocator /\ allocators[j].blockCount > 0 /\ net[j] = 0

\* C3: what a client wrote into a region xmalloc / xrealloc returned is read
\* back unchanged while that pointer has not been freed, whatever calls are
\* made on other pointers; no pointer is returned while it is outstanding and
\* the blocks of two outstanding pointers do not overlap.
C3_ContentsKept ==
    /\ \A p \in DOMAIN live : live[p].val # 0 => Read(mem, p) = Word("data", live[p].val)
    /\ ~aliased
    /\ \A p1, p2 \in DOMAIN live :
          p1 < p2 => get_block_ptr(p1) + allocators[live[p1].slot].size <= get_block_ptr(p2)

\* A written region is outstanding next to another outstanding region of the
\* same class, and a third block has just been freed.
C3_Witness ==
    /\ last.op = "free"
    /\ \E p1, p2 \in DOMAIN live :
          /\ p1 # p2 /\ live[p1].slot = live[p2].slot
          /\ live[p1].val # 0
          /\ last.blk \notin {get_block_ptr(p1), get_block_ptr(p2)}

\* The size classes of the rounding: the powers of two and the two tuned
\* sizes 396 and 768.
SizeClasses == {396, 768} \cup {2 ^ k : k \in 0..(SIZE_BITS - 1)}

\* C4: for every requested size N the block size chosen is the smallest size
\* class that is at least N + HeaderSize, and no smaller request gets a larger
\* block size.
C4_Classify ==
    q.pc = "classified" =>
        /\ q.bs \in SizeClasses
        /\ q.bs >= q.size + HeaderSize
        /\ \A c \in SizeClasses : c >= q.size + HeaderSize => q.bs <= c
        /\ \A n \in 0..q.size : blockSize(n) <= q.bs

\* C5: the block an xmalloc of q.size bytes is served from has, after its
\* header, at least the requested number of bytes; a request of exactly a
\* class's block size is served by a larger class, 64 bytes by the 128-byte
\* class.
C5_UsableSize ==
    (last.op = "alloc" /\ last.res = "ok") =>
        /\ allocators[last.slot].size - HeaderSize >= q.size
        /\ q.size \in SizeClasses => allocators[last.slot].size > q.size
        /\ q.size = 64 => allocators[last.slot].size = 128
        /\ \A p \in DOMAIN live :
              /\ get_block_ptr(p) = last.blk
              /\ allocators[get_block_allocator(mem, p)].size = allocators[last.slot].size

\* C6: every block on an Allocator's free-list was issued by that Allocator,
\* and every outstanding block is held from the Allocator that first issued it.
C6_SamePool ==
    /\ \A i \in Slots : \A b \in Range(FreeList(allocators[i], mem)) :
          b \in DOMAIN origin /\ origin[b] = i
    /\ \A p \in DOMAIN live :
          get_block_ptr(p) \in DOMAIN origin /\ origin[get_block_ptr(p)] = live[p].slot

\* Two Allocators have a freed block each and a block freed earlier is
\* outstanding again.
C6_Witness ==
    /\ last.op = "free"
    /\ \A i \in Slots : FreeList(allocators[i], mem) # << >>
    /\ \E p \in DOMAIN live : live[p].val = 0 /\ Read(mem, p).k = "data"

\* C7: reading back the header written for block b and Allocator p gives b and
\* p, the client pointer is HeaderSize past b, and the header is the one word
\* at b.
C7_HeaderRoundTrip ==
    /\ q.pc \in {"encoded", "decoded"} =>
          /\ q.ptr = q.block + HeaderSize
          /\ DOMAIN mem = {q.block}
          /\ mem[q.block] = Word("ref", q.allocator)
    /\ q.pc = "decoded" => q.outBlock = q.block /\ q.outAllocator = q.allocator

\* The header of a block of the second Allocator has been written and read.
C7_Witness == q.pc = "decoded" /\ q.outAllocator = 2 /\ q.outBlock = HeapBase + LinkSize

\* C8: with STATIC_POOLS the heap is never called, by xalloc_init, by any
\* allocation or deallocation, by xalloc_destroy or by the exhaustion, and an
\* xmalloc from a class whose MAX_BLOCKS blocks are all outstanding calls the
\* new-handler.
C8_StaticExhaustion ==
    [][ staticPools =>
          /\ heapCalls = 0 /\ heapCalls' = 0
          /\ heapReleases = 0 /\ heapReleases' = 0
          /\ (/\ IsCall("alloc")
              /\ last'.slot # NULL
              /\ allocators[last'.slot].blocksInUse = MAX_BLOCKS)
             => (fatal' /\ last'.res = "fatal" /\ allocators' = allocators)
      ]_vars

\* A static pool ran out: MAX_BLOCKS blocks outstanding, the new-handler called.
C8_Witness ==
    /\ staticPools /\ fatal /\ last.op = "alloc" /\ last.res = "fatal"
    /\ allocators[last.slot].blocksInUse = MAX_BLOCKS
    /\ heapCalls = 0

\* C9: in a pool mode an Allocate calls the new-handler exactly when the
\* free-list is empty and every block of the pool has been issued, which is
\* when exactly `objects` blocks are outstanding; it then returns no block, and
\* otherwise it returns a block that was not outstanding.
C9_ExhaustionIff ==
    [][ (allocators[1].objects # 0 /\ IsCall("alloc")) =>
          LET al == allocators[1]
              exhausted == al.head = NULL /\ al.poolIndex = al.objects
          IN  /\ fatal' <=> exhausted
              /\ exhausted <=> (al.blocksInUse = al.objects)
              /\ exhausted => /\ last'.res = "fatal" /\ last'.blk = NULL
                              /\ live' = live /\ allocators' = allocators
              /\ ~exhausted => /\ last'.res = "ok" /\ last'.blk # NULL
                               /\ last'.blk \notin DOMAIN live
                               /\ last'.blk \in DOMAIN live'
      ]_vars

\* A static pool that had blocks freed and issued again ran out.
C9_Witness ==
    /\ fatal /\ last.res = "fatal"
    /\ allocators[1].mode = STATIC_POOL
    /\ allocators[1].blocksInUse = allocators[1].objects
    /\ \E b \in DOMAIN live : Read(mem, b).k = "link"

\* C10: without STATIC_POOLS, a size class of which never more than one block
\* was outstanding has taken at most one block from the heap; the heap calls
\* made are one per Allocator created and one per block.
C10_OneHeapBlock ==
    ~staticPools =>
        /\ \A i \in Slots : hiWater[i] <= 1 => Cardinality(Blocks(i)) <= 1
        /\ heapCalls = Cardinality(DOMAIN origin)
                       + Cardinality({i \in Slots : hiWater[i] > 0})

\* A block of a class was allocated, written, freed and allocated again, and
\* the class still has the one block.
C10_Witness ==
    /\ ~staticPools /\ last.op = "alloc" /\ last.res = "ok"
    /\ hiWater[last.slot] = 1 /\ Cardinality(Blocks(last.slot)) = 1
    /\ \E p \in DOMAIN live :
          get_block_ptr(p) = last.blk /\ live[p].val = 0 /\ Read(mem, p).k = "data"

\* C11: an xrealloc of a non-null pointer to a size above zero returns a
\* pointer whose region holds what the old region held at the call (the
\* first min(old usable size, new size) bytes, here the region's word whenever
\* the old block has usable bytes), be the new block of the old block's
\* Allocator or of another one.
C11_ReallocKeeps ==
    [][(IsCall("realloc") /\ last'.arg = "resize" /\ last'.res = "ok") =>
          \E p \in DOMAIN live \ DOMAIN live' :
             /\ last'.blk + HeaderSize \in DOMAIN live'
             /\ allocators[live[p].slot].size > HeaderSize
                  => Read(mem', last'.blk + HeaderSize) = Read(mem, p)]_vars

\* A pattern was written, and an xrealloc within the only Allocator there is
\* moved it to the block it returned; the old block is on the free-list.
C11_Witness ==
    /\ last.op = "realloc" /\ last.arg = "resize" /\ last.res = "ok"
    /\ last.blk + HeaderSize \in DOMAIN live
    /\ live[last.blk + HeaderSize].val = 1
    /\ Read(mem, last.blk + HeaderSize) = Word("data", 1)
    /\ allocators[last.slot].head # NULL
    /\ \A i \in Slots : i # last.slot => allocators[i] = NoAllocator

C13_ReallocZero ==
    [][(IsCall("realloc") /\ last'.arg = "zero") =>
          \E p \in DOMAIN live :
             /\ live' = Drop(live, p)
             /\ last'.blk = get_block_ptr(p) /\ last'.slot = live[p].slot
             /\ FreeList(allocators'[live[p].slot], mem')
                  = <<get_block_ptr(p)>> \o FreeList(allocators[live[p].slot], mem)
             /\ allocators'[live[p].slot].blocksInUse
                  = allocators[live[p].slot].blocksInUse - 1
             /\ \A j \in Slots : j # live[p].slot => allocators'[j] = allocators[j]
             /\ net' = [net EXCEPT ![live[p].slot] = @ - 1]
             /\ origin' = origin /\ heapCalls' = heapCalls /\ ~fatal']_vars

\* An xrealloc(p, 0) put p's block on a free-list that held a block already,
\* and no pointer is outstanding.
C13_Witness ==
    /\ last.op = "realloc" /\ last.arg = "zero"
    /\ Len(FreeList(allocators[last.slot], mem)) = 2
    /\ allocators[last.slot].head = last.blk
    /\ live = <<>>

\* C14: xfree of a null pointer returns at once: no Allocator, no free-list,
\* no count and no entry of _allocators[] changes, and the lock is not taken
\* (the call returns even while another thread is inside the lock).
C14_FreeNull ==
    [][\A t \in DOMAIN threads :
          (threads[t].op = "xfree" /\ threads[t].pc = "enter" /\ threads[t].ptr = NULL
           /\ threads'[t] # threads[t])
          => /\ threads'[t] = Idle
             /\ allocators' = allocators /\ mem' = mem /\ live' = live
             /\ heapCalls' = heapCalls /\ heapReleases' = heapReleases
             /\ criticalSection' = criticalSection]_vars

\* A thread has called xfree(0) while the other one is inside the lock, with
\* a block on the free-list of the Allocator it works on.
C14_Witness ==
    \E t \in DOMAIN threads, u \in DOMAIN threads :
        /\ threads[t].op = "xfree" /\ threads[t].pc = "enter" /\ threads[t].ptr = NULL
        /\ criticalSection.owner = u /\ threads[u].pc = "take"
        /\ threads[u].al.head # NULL

\* The blocks of Allocator i that are handed out: those of the pointers held
\* outside the xallocator and those a thread has taken and not yet returned.
Held(i) ==
    {get_block_ptr(p) : p \in {x \in DOMAIN live : live[x].slot = i}}
      \cup {threads[t].block : t \in {x \in DOMAIN threads :
                                        threads[x].pc = "stamp" /\ threads[x].allocator = i}}

\* C15: once xalloc_init has run, at most one thread at a time is in the code
\* that reads or writes _allocators[] or a free-list, and it is the thread
\* holding the lock; no block is handed out twice, and whenever no thread is
\* in that code every block an Allocator ever created is either handed out
\* or on its free-list, once (for as long as the Allocator exists).
C15_OneInside ==
    /\ Cardinality(Inside) <= 1
    /\ xallocInitialized => \A t \in Inside : criticalSection.owner = t
    /\ ~aliased
    /\ \A t \in DOMAIN threads, u \in DOMAIN threads :
           (t # u /\ threads[t].pc = "stamp" /\ threads[u].pc = "stamp")
              => threads[t].block # threads[u].block
    /\ \A t \in DOMAIN threads :
           threads[t].pc = "stamp" => threads[t].block + HeaderSize \notin DOMAIN live
    /\ Inside = {} =>
          \A i \in Slots :
             allocators[i] # NoAllocator =>
                /\ Range(FreeList(allocators[i], mem)) \cup Held(i) = Blocks(i)
                /\ Range(FreeList(allocators[i], mem)) \cap Held(i) = {}
                /\ Cardinality(Range(FreeList(allocators[i], mem)))
                     = Len(FreeList(allocators[i], mem))

\* After xalloc_init: a thread waits at lock_get while the other one, inside
\* the lock, is about to take a block off a free-list.
C15_Witness ==
    /\ xallocInitialized
    /\ \E t \in DOMAIN threads, u \in DOMAIN threads :
          /\ threads[t].pc = "lock" /\ threads[u].pc = "take"
          /\ threads[t].size = threads[u].size
          /\ criticalSection.owner = u
          /\ threads[u].al.head # NULL

\* The steps of thread t.
Step(t) ==
    \/ MLock(t) \/ MNew(t) \/ MTake(t) \/ MStamp(t) \/ FEnter(t) \/ FLock(t) \/ FLink(t)
    \/ DLock(t) \/ DTeardown(t) \/ DDestroy(t)

\* C16: until xalloc_init has run lock_get and lock_release do nothing: the
\* critical section is never used uninitialised, it is left as it was, and a
\* thread in xmalloc, xfree or xrealloc can always take its next step.
C16_NoLockBeforeInit ==
    /\ ~criticalSection.misuse
    /\ (~xallocInitialized /\ ~destroyed)
          => criticalSection = [valid |-> FALSE, owner |-> NULL, misuse |-> FALSE]
    /\ \A t \in DOMAIN threads :
          (~xallocInitialized /\ threads[t].pc # "idle") => ENABLED Step(t)

\* Before xalloc_init an xmalloc and an xfree have completed and another
\* xmalloc is past lock_get, about to take the block freed.
C16_Witness ==
    /\ ~xallocInitialized
    /\ \E t \in DOMAIN threads : threads[t].pc = "take" /\ threads[t].al.head # NULL
    /\ criticalSection = [valid |-> FALSE, owner |-> NULL, misuse |-> FALSE]

\* The Allocators _allocators[] holds.
Registered(as) == {i \in Slots : as[i] # NoAllocator}

C20_OnePoolPerSize ==
    \A i \in Slots, j \in Slots :
       (i # j /\ allocators[i] # NoAllocator /\ allocators[j] # NoAllocator)
          => allocators[i].size # allocators[j].size

\* The units whose xallocInitDestroy was constructed, and those whose
\* xallocInitDestroy was destroyed again.
Built == {u \in DOMAIN units : units[u].phase # "none"}
Gone == {u \in DOMAIN units : units[u].phase = "done"}

\* C17: refCount counts the XallocInitDestroy instances alive; xalloc_init has
\* run once as soon as one was constructed and never again; xalloc_destroy has
\* run once when all that were constructed are destroyed, and not before.
C17_InitDestroyOnce ==
    /\ refCount = Cardinality(Built) - Cardinality(Gone)
    /\ calls.init = (IF Built = {} THEN 0 ELSE 1)
    /\ calls.destroy = (IF Built # {} /\ Gone = Built THEN 1 ELSE 0)
    /\ xallocInitialized = (calls.init = 1 /\ calls.destroy = 0)

\* Every unit's static objects were constructed and destroyed.
C17_Witness ==
    /\ Gone = Units
    /\ calls = [init |-> 1, destroy |-> 1]
    /\ refCount = 0
    /\ \A i \in Slots : allocators[i] = NoAllocator

\* C18: with xallocInitDestroy defined first in every unit, whatever the order
\* of the units, the xmalloc of a user static constructor runs after
\* xalloc_init and the xfree of a user static destructor before
\* xalloc_destroy.
C18_InitBeforeUse ==
    [][\A u \in DOMAIN units :
          /\ (units[u].phase = "boot" /\ units'[u].phase = "user")
                => (calls.init = 1 /\ calls.destroy = 0 /\ xallocInitialized
                    /\ criticalSection.valid)
          /\ (units[u].phase = "user" /\ units'[u].phase = "userGone")
                => (calls.init = 1 /\ calls.destroy = 0 /\ xallocInitialized
                    /\ criticalSection.valid /\ calls'.destroy = 0)]_vars

\* A unit's xallocInitDestroy is destroyed while the MyClassStatic of another
\* unit, constructed before it, has just freed its memory.
C18_Witness ==
    /\ \E u \in DOMAIN units : units[u].phase = "done"
    /\ \E u \in DOMAIN units : units[u].phase = "userGone"
    /\ last.op = "free"
    /\ xallocInitialized /\ calls.destroy = 0

\* The lone Allocator was constructed with a size argument below the size of
\* a pointer.
SmallSize == lone # NoLone /\ lone.size < LinkSize

C22_LinkFits ==
    \A i \in Slots :
        allocators[i] # NoAllocator =>
            /\ allocators[i].size >= LinkSize
            /\ \A a, b \in Blocks(i) : a < b => b - a >= LinkSize
            /\ \A a \in Range(FreeList(allocators[i], mem)) :
                   a \in Blocks(i) /\ Read(mem, a).k = "link"

\* An Allocator constructed with too small a size has two blocks on its
\* free-list, the first linking to the second.
C22_Witness ==
    /\ SmallSize
    /\ allocators[1] # NoAllocator
    /\ Len(FreeList(allocators[1], mem)) = 2


\* The modes of the lone Allocator, by its constructor's arguments.
HeapPoolMode == lone # NoLone /\ lone.objects > 0 /\ lone.memory = NULL
HeapBlocksMode == lone # NoLone /\ lone.objects = 0

\* C23: a lone Allocator in heap pool mode calls operator new once, in its
\* constructor, for block size times objects bytes; every block it hands out
\* lies in that pool, no Allocate or Deallocate calls operator new or delete,
\* and the destructor deletes the pool, once, and nothing else.
C23_OnePoolAllocation ==
    HeapPoolMode =>
        /\ heapCalls = 1
        /\ lone.pool # NULL
        /\ heapReleases = (IF destroyed THEN 1 ELSE 0)
        /\ lone.deleted = (IF destroyed THEN <<lone.pool>> ELSE <<>>)
        /\ ~destroyed =>
              /\ allocators[1].memory = lone.pool
              /\ lone.bytes = allocators[1].size * allocators[1].objects
        /\ \A b \in DOMAIN origin :
              /\ lone.pool <= b
              /\ (b - lone.pool) * lone.objects <= lone.bytes * (lone.objects - 1)

\* A heap pool was destroyed after all its blocks had been issued, one was
\* freed and issued again, and with a block still outstanding.
C23_Witness ==
    /\ HeapPoolMode /\ destroyed
    /\ lone.objects = MAX_BLOCKS
    /\ Cardinality(DOMAIN origin) = MAX_BLOCKS
    /\ \E b \in DOMAIN live : Read(mem, b).k = "link"

\* C24: the destructor of a lone Allocator in heap blocks mode deletes the
\* blocks that are on its free-list, each once, and no other: the blocks it
\* created that are not outstanding.  Nothing is deleted before, so after
\* destruction the blocks obtained from the heap less the blocks deleted are
\* the blocks still outstanding.
C24_FreeListReleased ==
    HeapBlocksMode =>
        /\ ~destroyed => (heapReleases = 0 /\ lone.deleted = <<>>)
        /\ destroyed =>
              /\ Cardinality(Range(lone.deleted)) = Len(lone.deleted)
              /\ Range(lone.deleted) = (DOMAIN origin) \ (DOMAIN live)
              /\ heapReleases = Len(lone.deleted)
              /\ heapCalls = Cardinality(DOMAIN origin)
              /\ heapCalls - heapReleases = Cardinality(DOMAIN live)

\* Destroyed with all blocks but one on the free-list and that one outstanding.
C24_Witness ==
    /\ HeapBlocksMode /\ destroyed
    /\ Len(lone.deleted) = MaxHeapBlocks - 1
    /\ Cardinality(DOMAIN live) = 1


\* The k-th Allocator of the registry, in the order of its slots.
Nth(as, k) ==
    CHOOSE i \in Registered(as) : Cardinality({j \in Registered(as) : j < i}) = k - 1

\* C25: a call of xalloc_stats changes nothing (not the registry, no
\* Allocator's free-list or counts, no memory word, no pointer held, no heap
\* count) and puts out one line for every Allocator that exists, in the order
\* of the registry, with that Allocator's block size, the blocks it has
\* created and the blocks it has outstanding.
C25_Stats ==
    [][IsCall("stats") =>
          /\ UNCHANGED <<allocators, mem, heapCalls, heapReleases, fatal, live, aliased,
                         origin, hiWater, net, xallocInitialized, destroyed,
                         criticalSection, calls>>
          /\ Len(last'.out) = Cardinality(Registered(allocators))
          /\ \A k \in 1..Len(last'.out) :
                LET i == Nth(allocators, k)
                IN  /\ last'.out[k].blockSize = allocators[i].size
                    /\ last'.out[k].blockCount = Cardinality(Blocks(i))
                    /\ last'.out[k].blocksInUse = net[i]
                    /\ last'.out[k].blocksInUse =
                          Cardinality({p \in DOMAIN live : live[p].slot = i})
      ]_vars

\* The statistics of two Allocators, the first with a block in use and
\* another one free, the second with a block in use.
C25_Witness ==
    /\ last.op = "stats"
    /\ Len(last.out) = 2
    /\ last.out[1].blockCount = 2 /\ last.out[1].blocksInUse = 1
    /\ last.out[2].blocksInUse = 1


\* The block size of the Allocator that serves pointer p.
ClassOf(p) == allocators[live[p].slot].size

\* C26: a 10-byte request is served by the Allocator of block size 16 and a
\* 40-byte request by the one of block size 64; a 12-byte request made right
\* after the block of a 10-byte request was freed gets that very block, and
\* no block and no Allocator is created for it.
C26_Scenario ==
    [][/\ \A p \in DOMAIN script.asked :
             /\ p \in DOMAIN live
             /\ script.asked[p] = 10 => ClassOf(p) = 16
             /\ script.asked[p] = 40 => ClassOf(p) = 64
       /\ (/\ last.op = "free" /\ script.freedSize = 10
           /\ IsCall("alloc")
           /\ script'.asked # script.asked
           /\ script'.asked[last'.blk + HeaderSize] = 12)
             => /\ last'.blk = get_block_ptr(script.freed)
                /\ last'.blk + HeaderSize = script.freed
                /\ heapCalls' = heapCalls
                /\ origin' = origin
                /\ allocators'[last'.slot].size = 16
                /\ allocators'[last'.slot].blockCount = allocators[last'.slot].blockCount
      ]_vars

\* The scenario has run: 10 bytes asked, 40 bytes asked, the first freed, and
\* the 12 bytes asked then are in the block freed, next to the 40 bytes.
C26_Witness ==
    /\ last.op = "alloc"
    /\ script.freedSize = 10
    /\ script.freed \in DOMAIN script.asked
    /\ script.asked[script.freed] = 12
    /\ last.blk + HeaderSize = script.freed
    /\ \E p \in DOMAIN script.asked : script.asked[p] = 40 /\ ClassOf(p) = 64
    /\ Cardinality(DOMAIN origin) = 2


\* C27: a request whose size plus header is 257..396 is served by the
\* Allocator of block size 396, one whose size plus header is 513..768 by the
\* one of block size 768, and every other request by the Allocator whose block
\* size is the smallest power of two that is at least size plus header.
C27_DefaultTuning ==
    (q.pc = "classified" /\ last.op = "alloc" /\ last.res = "ok") =>
        LET n == q.size + HeaderSize
            served == allocators[last.slot].size
        IN  IF n >= 257 /\ n <= 396 THEN served = 396
            ELSE IF n >= 513 /\ n <= 768 THEN served = 768
            ELSE /\ \E k \in 0..(2 * SIZE_BITS) : served = 2 ^ k
                 /\ served >= n
                 /\ served < 2 * n


\* With STATIC_POOLS: no Allocator before xalloc_init and after
\* xalloc_destroy, and in between every slot of as holds the Allocator of its
\* block size, in static pool mode over the storage reserved for the slot.
StaticRegistry(as, initialized) ==
    IF initialized
    THEN \A i \in Slots :
            /\ as[i] # NoAllocator
            /\ as[i].mode = STATIC_POOL
            /\ as[i].size = StaticSizes[i]
            /\ as[i].objects = MAX_BLOCKS
            /\ as[i].memory = PoolBase(i)
    ELSE Registered(as) = {}

\* C28: with STATIC_POOLS every Allocator is created by xalloc_init, in place
\* over its static storage; from xalloc_init to xalloc_destroy the registry
\* holds the same Allocators, whatever is asked of xmalloc and xrealloc (a size
\* no Allocator handles included); the heap is never called and every block
\* lies in the static storage of its Allocator.
C28_StaticRegistry ==
    [][staticPools =>
          /\ StaticRegistry(allocators, xallocInitialized)
          /\ StaticRegistry(allocators', xallocInitialized')
          /\ heapCalls' = 0
          /\ \A b \in DOMAIN origin' :
                /\ PoolBase(origin'[b]) <= b
                /\ b + StaticSizes[origin'[b]] <= PoolBase(origin'[b]) + StaticSizes[origin'[b]] * MAX_BLOCKS
          /\ (IsCall("alloc") \/ IsCall("realloc") \/ IsCall("free"))
                => /\ xallocInitialized
                   /\ \A i \in Slots :
                         /\ allocators'[i].size = allocators[i].size
                         /\ allocators'[i].memory = allocators[i].memory
      ]_vars

\* With STATIC_POOLS a size no Allocator handles was asked for while blocks of
\* both Allocators were outstanding.
C28_Witness ==
    /\ staticPools /\ xallocInitialized
    /\ last.res = "error"
    /\ \A i \in Slots : allocators[i].blocksInUse > 0


\* C29: xalloc_destroy destroys every Allocator there is at that moment and
\* leaves every entry of _allocators[] null; without STATIC_POOLS, where its
\* loop ends at the first null entry, the non-null entries are always the
\* first ones of the array. The loop runs inside the critical section, in a
\* heap build it deletes every block on a free-list and every Allocator, and
\* the critical section is destroyed after it has been left, with the
\* registry already empty.
C29_Shutdown ==
    [][/\ ~staticPools =>
             Registered(allocators') = 1..Cardinality(Registered(allocators'))
       /\ \A t \in DOMAIN threads :
             (threads[t].pc = "teardown" /\ threads'[t].pc = "unlocked") =>
                /\ criticalSection.valid /\ criticalSection.owner = t
                /\ Inside = {t}
                /\ Registered(allocators') = {}
                /\ heapReleases' - heapReleases =
                      IF staticPools THEN 0
                      ELSE Cardinality(Registered(allocators))
                           + Cardinality(UNION {Range(FreeList(allocators[i], mem)) :
                                                   i \in Registered(allocators)})
       /\ (criticalSection.valid /\ ~criticalSection'.valid) =>
             /\ criticalSection.owner = NULL
             /\ ~criticalSection'.misuse
             /\ Registered(allocators) = {}
             /\ destroyed'
      ]_vars

\* xalloc_destroy has returned in a heap build where it deleted at least
\* three things (Allocators and blocks on a free-list), with a block still
\* handed out.
C29_Witness ==
    /\ destroyed /\ ~staticPools
    /\ Registered(allocators) = {}
    /\ ~criticalSection.valid /\ ~criticalSection.misuse
    /\ heapReleases >= 3
    /\ DOMAIN live # {}


\* The external event a step is, if it is one.
IsEvent(event) ==
    /\ Len(motor'.asked) = Len(motor.asked) + 1
    /\ motor'.asked[Len(motor'.asked)].event = event

C31_ChecksOnlyLook ==
    [][/\ \A k \in 1..Len(motor'.checks) :
             /\ motor'.checks[k].before = motor'.checks[k].after
             /\ motor'.checks[k].allowed =>
                   TRANSITIONS[motor'.checks[k].event][motor'.checks[k].before.currentState]
                      \in Range(States)
             /\ TRANSITIONS[motor'.checks[k].event][motor'.checks[k].before.currentState]
                   = "CANNOT_HAPPEN" => ~motor'.checks[k].allowed
       /\ (motor' # motor /\ motor'.asked = motor.asked) =>
             /\ Snap(motor') = Snap(motor)
             /\ Len(motor'.checks) = 1
             /\ motor'.checks[1].before = Snap(motor)
       /\ (IsEvent("Halt") /\ motor.currentState \in {"ST_START", "ST_CHANGE_SPEED"}) =>
             /\ motor'.ran = motor.ran \o <<"Stop", "Idle">>
             /\ Len(motor'.checks) = 2
             /\ motor'.checks[1].event = "Halt" /\ motor'.checks[2].event = "SetSpeed"
             /\ \A k \in 1..2 :
                   /\ motor'.checks[k].before.currentState = "ST_STOP"
                   /\ motor'.checks[k].before.m_currentSpeed = 0
                   /\ motor'.checks[k].before.ran = motor.ran \o <<"Stop">>
                   /\ ~motor'.checks[k].allowed
      ]_vars

\* After Start and Stop, with the checks of ST_Stop made, SetSpeedAllowed has
\* been called outside and has answered yes; the machine rests in ST_IDLE.
C31_Witness ==
    /\ motor.ran = <<"Start", "Stop", "Idle">>
    /\ motor.currentState = "ST_IDLE"
    /\ Len(motor.checks) = 1
    /\ motor.checks[1].event = "SetSpeed" /\ motor.checks[1].allowed


\* main()'s events: SetSpeed(100), SetSpeed(200), Halt, Halt.
Example ==
    <<[event |-> "SetSpeed", speed |-> 100], [event |-> "SetSpeed", speed |-> 200],
      [event |-> "Halt", speed |-> NULL], [event |-> "Halt", speed |-> NULL]>>

\* C32: SetSpeed in ST_IDLE enters ST_START and runs Start, in ST_START or
\* ST_CHANGE_SPEED it enters ST_CHANGE_SPEED and runs ChangeSpeed; Halt in
\* ST_START or ST_CHANGE_SPEED enters ST_STOP and runs Stop (which goes on to
\* Idle), in ST_IDLE it changes nothing and runs nothing; no call throws.
\* main()'s four events run Start, ChangeSpeed, Stop, Idle in that order, all
\* of them before the second Halt.
C32_FollowsMaps ==
    [][/\ (IsEvent("SetSpeed") /\ motor.currentState = "ST_IDLE") =>
             /\ motor'.currentState = "ST_START"
             /\ motor'.ran = motor.ran \o <<"Start">>
       /\ (IsEvent("SetSpeed") /\ motor.currentState \in {"ST_START", "ST_CHANGE_SPEED"}) =>
             /\ motor'.currentState = "ST_CHANGE_SPEED"
             /\ motor'.ran = motor.ran \o <<"ChangeSpeed">>
       /\ (IsEvent("Halt") /\ motor.currentState \in {"ST_START", "ST_CHANGE_SPEED"}) =>
             /\ Len(motor'.ran) > Len(motor.ran)
             /\ SubSeq(motor'.ran, 1, Len(motor.ran) + 1) = motor.ran \o <<"Stop">>
             /\ Len(motor'.checks) > 0
             /\ motor'.checks[1].before.currentState = "ST_STOP"
       /\ (IsEvent("Halt") /\ motor.currentState = "ST_IDLE") =>
             Snap(motor') = Snap(motor)
       /\ (IsEvent("SetSpeed") \/ IsEvent("Halt")) => ~motor'.thrown /\ ~motor'.trapped
       /\ motor'.asked = Example =>
             /\ motor'.ran = <<"Start", "ChangeSpeed", "Stop", "Idle">>
             /\ motor.ran = motor'.ran
       /\ (motor'.asked = SubSeq(Example, 1, 3) /\ IsEvent("Halt")) =>
             /\ motor.ran = <<"Start", "ChangeSpeed">>
             /\ motor'.ran = <<"Start", "ChangeSpeed", "Stop", "Idle">>
      ]_vars

\* main() has run: the four events were sent, the four state functions ran
\* and the motor rests in ST_IDLE.
C32_Witness ==
    /\ motor.asked = Example
    /\ motor.ran = <<"Start", "ChangeSpeed", "Stop", "Idle">>
    /\ motor.currentState = "ST_IDLE"


\* The states MotorNew rests in between external events.
Resting == {"ST_IDLE", "ST_START", "ST_CHANGE_SPEED"}

\* C38: between external events MotorNew is in ST_IDLE, ST_START or
\* ST_CHANGE_SPEED with no event pending; every Stop that has run was
\* followed by Idle in the same call; and no external event finds a
\* CANNOT_HAPPEN entry for the current state, so none throws.
C38_NeverRestsInStop ==
    [][/\ motor.currentState \in Resting /\ motor'.currentState \in Resting
       /\ ~motor.eventGenerated /\ ~motor'.eventGenerated
       /\ \A k \in 1..Len(motor'.ran) :
             motor'.ran[k] = "Stop" => (k < Len(motor'.ran) /\ motor'.ran[k + 1] = "Idle")
       /\ Len(motor'.ran) > Len(motor.ran) => motor'.ran[Len(motor'.ran)] # "Stop"
       /\ \A event \in {"SetSpeed", "Halt"} :
             IsEvent(event) =>
                /\ TRANSITIONS[event][motor.currentState] # "CANNOT_HAPPEN"
                /\ ~motor'.thrown
      ]_vars

\* Stop has run and was followed by Idle, and the SetSpeed sent after that
\* was accepted and ran Start.
C38_Witness ==
    /\ motor.ran = <<"Start", "Stop", "Idle", "Start">>
    /\ motor.currentState = "ST_START"
    /\ ~motor.thrown

\* The speed carried by the last SetSpeed among the first n events called.
RECURSIVE LastSpeed(_, _)
LastSpeed(asked, n) ==
    IF n = 0 THEN NULL
    ELSE IF asked[n].event = "SetSpeed" THEN asked[n].speed
    ELSE LastSpeed(asked, n - 1)

\* C39: resting in ST_IDLE, m_currentSpeed is 0; resting in ST_START or
\* ST_CHANGE_SPEED, it is the speed of the most recent SetSpeed, which exists.
C39_Speed ==
    /\ motor.currentState = "ST_IDLE" => motor.m_currentSpeed = 0
    /\ motor.currentState \in {"ST_START", "ST_CHANGE_SPEED"} =>
          /\ \E k \in 1..Len(motor.asked) : motor.asked[k].event = "SetSpeed"
          /\ motor.m_currentSpeed = LastSpeed(motor.asked, Len(motor.asked))
          /\ motor.m_currentSpeed \in Speeds

\* The motor was started at 100, halted, started at 200 and set to 100.
C39_Witness ==
    /\ Len(motor.asked) = 4
    /\ motor.asked[2].event = "Halt"
    /\ motor.asked[3] = [event |-> "SetSpeed", speed |-> 200]
    /\ motor.currentState = "ST_CHANGE_SPEED"
    /\ motor.m_currentSpeed = 100


\* An Allocator of a pool mode with no block on its free-list and none left
\* in its pool.
Dry(al) ==
    al.mode \in {HEAP_POOL, STATIC_POOL} /\ al.head = NULL /\ al.poolIndex = al.objects

\* C33: xrealloc of a non-null pointer to a size above 0 takes the new block
\* before it gives the old one back: the block returned is never the old
\* pointer's block and the pointer returned was not outstanding; when both
\* belong to one Allocator its blocks-in-use count is the same after the
\* call as before and, its free-list being empty, the block is a new one;
\* and no such call succeeds on an Allocator of a pool mode with nothing
\* left: it ends in the new-handler, the old block still outstanding and
\* nothing changed.
C33_AllocateFirst ==
    [][/\ (IsCall("realloc") /\ last'.arg = "resize" /\ last'.res = "ok") =>
             /\ Cardinality(DOMAIN live \ DOMAIN live') = 1
             /\ \A p \in DOMAIN live \ DOMAIN live' :
                   /\ last'.blk # get_block_ptr(p)
                   /\ last'.blk + HeaderSize \in DOMAIN live' \ DOMAIN live
                   /\ live[p].slot = last'.slot =>
                         /\ ~Dry(allocators[last'.slot])
                         /\ allocators'[last'.slot].blocksInUse
                               = allocators[last'.slot].blocksInUse
                         /\ net'[last'.slot] = net[last'.slot]
                         /\ allocators'[last'.slot].head = get_block_ptr(p)
                         /\ allocators[last'.slot].head = NULL =>
                               allocators'[last'.slot].blockCount
                                  = allocators[last'.slot].blockCount + 1
       /\ (IsCall("realloc") /\ last'.arg = "resize" /\ last'.res = "fatal") =>
             /\ fatal'
             /\ live' = live /\ allocators' = allocators
      ]_vars

\* With static pools, every block of one Allocator is outstanding, no other
\* block is, and an xrealloc of one of these pointers to a size of the same
\* Allocator has ended in the new-handler.
C33_Witness ==
    /\ staticPools /\ fatal
    /\ last.op = "realloc" /\ last.arg = "resize" /\ last.res = "fatal"
    /\ Cardinality(DOMAIN live) = MAX_BLOCKS
    /\ \A p \in DOMAIN live : live[p].slot = last.slot
    /\ Dry(allocators[last.slot])


\* C34: without STATIC_POOLS an Allocator creates a block (operator new) only
\* in a step that finds its free-list empty, one block at a time, and the
\* number of blocks it has created equals the largest number of its blocks
\* that were outstanding at the same time.
C34_HighWater ==
    [][~staticPools =>
          \A i \in Slots :
             /\ allocators'[i] # NoAllocator =>
                   /\ allocators'[i].mode = HEAP_BLOCKS
                   /\ allocators'[i].blockCount = hiWater'[i]
                   /\ allocators'[i].blockCount = Cardinality(Blocks(i)')
             /\ (allocators'[i] # NoAllocator /\ allocators[i] # NoAllocator
                   /\ allocators'[i].blockCount # allocators[i].blockCount) =>
                   /\ allocators[i].head = NULL
                   /\ allocators'[i].blockCount = allocators[i].blockCount + 1
                   /\ heapCalls' = heapCalls + 1
      ]_vars

\* In the heap blocks build an Allocator that created two blocks, both given
\* back, has served an xmalloc from its free-list: one block is outstanding,
\* one is on the free-list and two were created.
C34_Witness ==
    /\ ~staticPools
    /\ last.op = "alloc" /\ last.res = "ok"
    /\ allocators[last.slot].blockCount = 2
    /\ allocators[last.slot].blocksInUse = 1
    /\ allocators[last.slot].head # NULL
    /\ hiWater[last.slot] = 2


\* The blocks of Allocator i behind the pointers the client holds.
Outstanding(i) == {get_block_ptr(p) : p \in {x \in DOMAIN live : live[x].slot = i}}

\* C35: with a client that frees only pointers it holds, in every state and
\* for every Allocator: no block is on the free-list twice, no block on the
\* free-list is outstanding, every block on it is one the Allocator created,
\* its length is the blocks created minus the blocks outstanding, the blocks
\* outstanding are those counted in use and are never more than the blocks
\* created, nor than the pool's blocks in a pool mode.
C35_FreeList ==
    \A i \in Slots :
       allocators[i] # NoAllocator =>
          /\ Cardinality(Range(FreeList(allocators[i], mem)))
                = Len(FreeList(allocators[i], mem))
          /\ Range(FreeList(allocators[i], mem)) \cap Outstanding(i) = {}
          /\ Range(FreeList(allocators[i], mem)) \cup Outstanding(i) = Blocks(i)
          /\ Len(FreeList(allocators[i], mem))
                = allocators[i].blockCount - Cardinality(Outstanding(i))
          /\ Cardinality(Outstanding(i)) = allocators[i].blocksInUse
          /\ Cardinality(Outstanding(i)) <= allocators[i].blockCount
          /\ allocators[i].mode \in {HEAP_POOL, STATIC_POOL} =>
                /\ allocators[i].blockCount <= allocators[i].objects
                /\ Cardinality(Outstanding(i)) <= allocators[i].objects

\* A static pool with all its blocks created, one on the free-list after an
\* xfree and the other outstanding.
C35_Witness ==
    /\ staticPools
    /\ last.op = "free"
    /\ allocators[last.slot].blockCount = MAX_BLOCKS
    /\ Len(FreeList(allocators[last.slot], mem)) = 1
    /\ Cardinality(Outstanding(last.slot)) = MAX_BLOCKS - 1


\* Block b is on no free-list, in no other thread's hands and behind no
\* pointer another thread is working on.
Untouched(t, b) ==
    /\ \A i \in Slots :
          allocators[i] # NoAllocator => b \notin Range(FreeList(allocators[i], mem))
    /\ \A u \in DOMAIN threads \ {t} :
          /\ threads[u].block # b
          /\ threads[u].ptr # NULL => get_block_ptr(threads[u].ptr) # b
          /\ threads[u].newMem # NULL => get_block_ptr(threads[u].newMem) # b

\* C36: set_block_allocator writes the header after lock_release and xfree
\* reads it before lock_get, the thread not holding the lock; the block
\* written is on no free-list, in no other thread's hands and not yet held
\* outside, and afterwards its header names the Allocator that issued it; the
\* block read is on no free-list and in no other thread's hands, and the
\* Allocator read is the one recorded when xmalloc returned the pointer, the
\* one that created the block.
C36_HeaderAccess ==
    [][\A t \in DOMAIN threads :
          /\ (threads[t].pc = "stamp" /\ threads'[t].pc # "stamp") =>
                /\ criticalSection.owner # t
                /\ Untouched(t, threads[t].block)
                /\ threads[t].block + HeaderSize \notin DOMAIN live
                /\ origin[threads[t].block] = threads[t].allocator
                /\ Read(mem', threads[t].block) = Word("ref", threads[t].allocator)
                /\ live'[threads[t].block + HeaderSize].slot = threads[t].allocator
          /\ (threads[t].pc = "enter" /\ threads'[t].pc = "give") =>
                /\ criticalSection.owner # t
                /\ threads[t].ptr \in DOMAIN live
                /\ Untouched(t, get_block_ptr(threads[t].ptr))
                /\ threads'[t].allocator = live[threads[t].ptr].slot
                /\ threads'[t].allocator = origin[get_block_ptr(threads[t].ptr)]
                /\ threads'[t].block = get_block_ptr(threads[t].ptr)
      ]_vars

\* A thread in xfree has read its pointer's header while another thread is
\* between lock_get and lock_release, giving a block back to the same
\* Allocator.
C36_Witness ==
    \E t, u \in DOMAIN threads :
       /\ t # u
       /\ threads[t].op = "xfree" /\ threads[t].pc = "give"
       /\ threads[t].allocator = live[threads[t].ptr].slot
       /\ threads[u].pc = "link" /\ criticalSection.owner = u
       /\ threads[u].allocator = threads[t].allocator


\* Fair scheduling: a thread that can take its next step again and again
\* takes it; so a thread that is ready runs, and a thread waiting in lock_get
\* for a critical section that becomes free again and again enters it.
Fairness == \A t \in Threads : SF_vars(Step(t))

\* Threads calling xmalloc and xfree, and xalloc_destroy at exit.
NextFair ==
    \/ Quiet /\ XallocInit
    \/ \E t \in Threads, size \in ThreadSizes : Call(t, "xmalloc", NULL, size)
    \/ \E t \in Threads, ptr \in DOMAIN live : Call(t, "xfree", ptr, 0)
    \/ \E t \in Threads : MLock(t)
    \/ \E t \in Threads : MNew(t)
    \/ \E t \in Threads : MTake(t)
    \/ \E t \in Threads : MStamp(t)
    \/ \E t \in Threads : FEnter(t)
    \/ \E t \in Threads : FLock(t)
    \/ \E t \in Threads : FLink(t)
    \/ \E t \in Threads : CallDestroy(t)
    \/ \E t \in Threads : DLock(t)
    \/ \E t \in Threads : DTeardown(t)
    \/ \E t \in Threads : DDestroy(t)

SpecFair == InitThreads /\ [][NextFair]_vars /\ Fairness

\* lock_get and lock_release are matched within every call: a thread owns
\* the critical section only between its lock_get and its lock_release (or
\* in the new-handler, which does not return) and never when its call has
\* returned; the critical section is entered and left only by steps of the
\* thread that becomes or was its owner, never misused, and a call that
\* skipped lock_get because lock_init had not run skips lock_release as well.
Balanced ==
    \A t \in DOMAIN threads :
        /\ criticalSection'.owner = t => threads'[t].pc \in LockedCode \cup {"handler"}
        /\ (threads'[t].pc \in LockedCode /\ xallocInitialized') =>
              criticalSection'.owner = t
        /\ threads'[t].pc \in {"idle", "stamp", "enter", "give", "lock", "exit", "unlocked"}
              => criticalSection'.owner # t
        /\ (criticalSection.owner # t /\ criticalSection'.owner = t) =>
              (threads[t].pc \in {"lock", "give", "exit"} /\ criticalSection.owner = NULL)
        /\ (criticalSection.owner = t /\ criticalSection'.owner # t) =>
              (threads[t].pc \in LockedCode /\ threads'[t].pc \notin LockedCode
                 /\ criticalSection'.owner = NULL)
        /\ ~xallocInitialized' => criticalSection'.owner = NULL
        /\ ~criticalSection'.misuse

=============================================================================
